---- MODULE Spec2Model ----
(***************************************************************************)
(* A model of grdb (glaze-raster-db): one SQLite file holding a schema     *)
(* version row, session metadata, a pulse table and a composition-edge     *)
(* table, together with the schema migrator and the public operations of   *)
(* grdb/crud.py.                                                           *)
(*                                                                         *)
(* The file is the variable db, a record with one field per table.  A      *)
(* table is the sequence of its rows in rowid order, which is the order    *)
(* SQLite's table scan returns them in when a SELECT has no ORDER BY.      *)
(***************************************************************************)
EXTENDS Integers, Sequences, FiniteSets, TLC

VARIABLES
    db,              \* the file at the path: tables, columns, rows
    pc,              \* where the current call stands: "idle", "loop", "step", "opened",
                     \* "loading"
    op,              \* the public operation of the current call
    schema_version,  \* the local variable of _ensure_schema_compatibility
    commit_no,       \* inside a migration step: the commits of it already done
    start_version,   \* history: the version the current call read when it opened
    steps_run,       \* history: the migration steps the current call completed
    before,          \* history: the file as the current call found it
    result,          \* outcome of the last call: "none", "ok" or the error raised
    returned,        \* what the last load_pulses or load_metadata returned
    batch,           \* history: the pulses the last add_pulses was called with or built for
    written,         \* history: the Measurements that add_pulses has persisted
    args,            \* history: the other arguments of the last call
    loader           \* the locals of _load_all_sources in a load_pulses run pass by pass

vars == <<db, pc, op, schema_version, commit_no, start_version, steps_run,
          before, result, returned, batch, written, args, loader>>

(***************************************************************************)
(* Bounds of the model and constants of the program.                       *)
(***************************************************************************)
MaxRows == 5          \* the pulse table holds at most this many rows; uuids are 1..MaxRows
MaxPosition == 2      \* stitch positions are 0..MaxPosition
MaxLimit == 3         \* offsets and limits of load_pulses are 0..MaxLimit

CURRENT_SCHEMA_VERSION == 6

None == -1            \* Python's None / SQL NULL in a numeric field
NoVariant == "NULL"   \* SQL NULL in a text column

UUIDs == 1..MaxRows

Min(a, b) == IF a < b THEN a ELSE b
Range(s) == {s[i] : i \in 1..Len(s)}

(***************************************************************************)
(* WaveformCodec: PulseDB.pack_floats / PulseDB.unpack_floats.             *)
(* A double is a natural number counted in half units of float32           *)
(* precision: the even numbers are the values float32 represents, and      *)
(* struct.pack("f") rounds an odd one to the neighbour whose float32 code  *)
(* is even.  The code is written as 4 little-endian bytes.                 *)
(***************************************************************************)
Float32Code(v) ==
    LET c == v \div 2
    IN  IF v % 2 = 0 THEN c ELSE IF c % 2 = 0 THEN c ELSE c + 1

Float32Value(c) == 2 * c

BytesLE(c) ==
    <<c % 256, (c \div 256) % 256, (c \div 65536) % 256, (c \div 16777216) % 256>>

FromBytesLE(b) == b[1] + 256 * b[2] + 65536 * b[3] + 16777216 * b[4]

RECURSIVE pack_floats(_)
pack_floats(values) ==
    IF values = <<>> THEN <<>>
    ELSE BytesLE(Float32Code(Head(values))) \o pack_floats(Tail(values))

StructErrorNever(blob) == FALSE

\* struct.unpack raises struct.error unless the blob holds exactly 4 * count bytes
struct_error(blob) == Len(blob) # 4 * (Len(blob) \div 4)

unpack_floats(blob) ==
    [i \in 1..(Len(blob) \div 4) |->
        Float32Value(FromBytesLE(SubSeq(blob, 4 * i - 3, 4 * i)))]

(***************************************************************************)
(* Rows.  An annotations cell is NULL or the JSON text of a list.          *)
(***************************************************************************)
NullCell == [null |-> TRUE, json |-> <<>>]
json_dumps(list) == [null |-> FALSE, json |-> list]
json_loads(cell) == cell.json

\* PulseDB(...): one row of the pulse table
PulseRow(uuid, time, signal, timestamp, x, y, z, reference, variant, noise, pass_number, annotations) ==
    [uuid |-> uuid, time |-> time, signal |-> signal, timestamp |-> timestamp,
     x |-> x, y |-> y, z |-> z, reference |-> reference, variant |-> variant,
     noise |-> noise, pass_number |-> pass_number, annotations |-> annotations,
     is_reference |-> None]

\* PulseCompositionTable(...): one row of the composition-edge table
EdgeRow(id, final_uuid, source_uuid, position, shift, composition_type) ==
    [id |-> id, final_uuid |-> final_uuid, source_uuid |-> source_uuid,
     position |-> position, shift |-> shift, composition_type |-> composition_type]

(***************************************************************************)
(* The schema of the file: its tables, and the columns that the migration  *)
(* chain adds or drops.                                                    *)
(***************************************************************************)
ModelTables == {"raster_info", "pulses", "schema_version", "pulse_composition"}

ColumnsAt(v) ==
    (IF v <= 2 THEN {"pulses.is_reference"} ELSE {})
    \cup (IF v >= 2 THEN {"raster_info.user_coordinates"} ELSE {})
    \cup (IF v >= 3 THEN {"pulses.variant", "pulses.annotations"} ELSE {})
    \cup (IF v >= 4 THEN {"pulses.pass_number", "pulses.noise",
                          "raster_info.repetitions_config"} ELSE {})
    \cup (IF v >= 5 THEN {"pulse_composition.composition_type"} ELSE {})
    \cup (IF v >= 6 THEN {"raster_info.variant"} ELSE {})

\* the columns of ModelColumns that belong to the tables of the set ts
ColumnsOf(ts) ==
    (IF "raster_info" \in ts
        THEN {"raster_info.user_coordinates", "raster_info.repetitions_config",
              "raster_info.variant"} ELSE {})
    \cup (IF "pulses" \in ts
        THEN {"pulses.variant", "pulses.annotations", "pulses.pass_number",
              "pulses.noise"} ELSE {})
    \cup (IF "pulse_composition" \in ts
        THEN {"pulse_composition.composition_type"} ELSE {})

NoFile ==
    [exists |-> FALSE, tables |-> {}, columns |-> {}, schema_version |-> <<>>,
     raster_info |-> <<>>, pulses |-> <<>>, pulse_composition |-> <<>>,
     pulse_composition_old |-> <<>>]

\* create_tables: CREATE TABLE for every table of the model that the file lacks;
\* an existing table and every row are left as they are.
create_tables(d) ==
    LET missing == ModelTables \ d.tables
    IN  [d EXCEPT !.exists = TRUE,
                  !.tables = @ \cup missing,
                  !.columns = @ \cup ColumnsOf(missing)]

(***************************************************************************)
(* SchemaMigrator: grdb/migrations.py.  A step is a sequence of commits;   *)
(* MigrationCommit(v, k, d) is commit number k (from 0) of the step        *)
(* registered for version v, applied to the file d.  A commit that raises  *)
(* rolls its statements back and leaves d as it was.                       *)
(***************************************************************************)
Committed(d) == [ok |-> TRUE, error |-> "none", db |-> d]
Raised(d, err) == [ok |-> FALSE, error |-> err, db |-> d]

\* _get_schema_version: the first row of schema_version, None without table or row
_get_schema_version(d) ==
    IF d.schema_version = <<>> THEN None ELSE d.schema_version[1]

UpdateSchemaVersionLower(d, new_version) ==
    Committed([d EXCEPT !.schema_version =
        IF @ = <<>> THEN <<new_version - 2>> ELSE [@ EXCEPT ![1] = new_version - 2]])

_update_schema_version(d, new_version) ==
    Committed([d EXCEPT !.schema_version =
        IF @ = <<>> THEN <<new_version>> ELSE [@ EXCEPT ![1] = new_version]])

\* _execute_text with ALTER TABLE ... ADD COLUMN statements
AddColumns(d, cols) ==
    IF cols \cap d.columns # {} THEN Raised(d, "OperationalError")
    ELSE Committed([d EXCEPT !.columns = @ \cup cols])

_migrate_to_v2(d, k) ==
    IF k = 0 THEN AddColumns(create_tables(d), {"raster_info.user_coordinates"})
    ELSE _update_schema_version(d, 2)

\* the UPDATE statements of _migrate_to_v3 on one pulse row
BackfillVariant(row) ==
    [row EXCEPT !.variant = IF row.is_reference = 1 THEN "reference"
                            ELSE IF row.is_reference = 0 THEN "sample" ELSE @,
                !.is_reference = None,
                !.annotations = IF @.null THEN json_dumps(<<>>) ELSE @]

_migrate_to_v3(d, k) ==
    IF k = 0 THEN
        LET e == create_tables(d)
        IN  IF {"pulses.variant", "pulses.annotations"} \cap e.columns # {}
               \/ "pulses.is_reference" \notin e.columns
            THEN Raised(d, "OperationalError")
            ELSE Committed([e EXCEPT
                    !.columns = (@ \cup {"pulses.variant", "pulses.annotations"})
                                \ {"pulses.is_reference"},
                    !.pulses = [i \in 1..Len(@) |-> BackfillVariant(@[i])]])
    ELSE _update_schema_version(d, 3)

_migrate_to_v4(d, k) ==
    IF k = 0 THEN AddColumns(create_tables(d),
                    {"pulses.pass_number", "pulses.noise",
                     "raster_info.repetitions_config"})
    ELSE _update_schema_version(d, 4)

EdgeConstraintsNoPosition(rows) ==
    /\ \A i, j \in 1..Len(rows) :
           i # j /\ rows[i].final_uuid = rows[j].final_uuid =>
               rows[i].source_uuid # rows[j].source_uuid
    /\ \A i \in 1..Len(rows) :
           \/ rows[i].composition_type = "stitch"
              /\ rows[i].position # None /\ rows[i].shift # None
           \/ rows[i].composition_type = "average"
              /\ rows[i].position = None /\ rows[i].shift = None

\* the constraints of PulseCompositionTable.__table_args__
EdgeConstraintsOk(rows) ==
    /\ \A i, j \in 1..Len(rows) :
           i # j /\ rows[i].final_uuid = rows[j].final_uuid =>
               /\ rows[i].position = None \/ rows[i].position # rows[j].position
               /\ rows[i].source_uuid # rows[j].source_uuid
    /\ \A i \in 1..Len(rows) :
           \/ rows[i].composition_type = "stitch"
              /\ rows[i].position # None /\ rows[i].shift # None
           \/ rows[i].composition_type = "average"
              /\ rows[i].position = None /\ rows[i].shift = None

\* the rows of the old edge table as _migrate_to_v5 inserts them into the new one
CopiedAsStitch(d) ==
    [i \in 1..Len(d.pulse_composition_old) |->
        [d.pulse_composition_old[i] EXCEPT !.composition_type = "stitch"]]

MigrateToV5DropsLast(d, k) ==
    CASE k = 0 ->   \* drop the indexes, rename the table to pulse_composition_old
            IF "pulse_composition" \notin d.tables
               \/ "pulse_composition_old" \in d.tables
            THEN Raised(d, "OperationalError")
            ELSE Committed([d EXCEPT
                    !.tables = (@ \ {"pulse_composition"}) \cup {"pulse_composition_old"},
                    !.columns = @ \ {"pulse_composition.composition_type"},
                    !.pulse_composition_old = d.pulse_composition,
                    !.pulse_composition = <<>>])
      [] k = 1 ->   \* create the new table
            Committed(create_tables(d))
      [] k = 2 ->   \* copy every old row as a 'stitch' edge, keeping its id
            IF "pulse_composition" \notin d.tables
               \/ "pulse_composition_old" \notin d.tables
            THEN Raised(d, "OperationalError")
            ELSE IF \E i \in 1..Len(d.pulse_composition_old) :
                       \E j \in 1..Len(d.pulse_composition) :
                           d.pulse_composition[j].id = d.pulse_composition_old[i].id
            THEN Raised(d, "IntegrityError")
            ELSE IF ~EdgeConstraintsOk(d.pulse_composition \o CopiedAsStitch(d))
            THEN Raised(d, "IntegrityError")
            ELSE Committed([d EXCEPT !.pulse_composition = @ \o
                    SubSeq(CopiedAsStitch(d), 1, Len(CopiedAsStitch(d)) - 1)])
      [] k = 3 ->   \* drop the old table
            IF "pulse_composition_old" \notin d.tables
            THEN Raised(d, "OperationalError")
            ELSE Committed([d EXCEPT !.tables = @ \ {"pulse_composition_old"},
                                     !.pulse_composition_old = <<>>])
      [] OTHER -> _update_schema_version(d, 5)

_migrate_to_v5(d, k) ==
    CASE k = 0 ->   \* drop the indexes, rename the table to pulse_composition_old
            IF "pulse_composition" \notin d.tables
               \/ "pulse_composition_old" \in d.tables
            THEN Raised(d, "OperationalError")
            ELSE Committed([d EXCEPT
                    !.tables = (@ \ {"pulse_composition"}) \cup {"pulse_composition_old"},
                    !.columns = @ \ {"pulse_composition.composition_type"},
                    !.pulse_composition_old = d.pulse_composition,
                    !.pulse_composition = <<>>])
      [] k = 1 ->   \* create the new table
            Committed(create_tables(d))
      [] k = 2 ->   \* copy every old row as a 'stitch' edge, keeping its id
            IF "pulse_composition" \notin d.tables
               \/ "pulse_composition_old" \notin d.tables
            THEN Raised(d, "OperationalError")
            ELSE IF \E i \in 1..Len(d.pulse_composition_old) :
                       \E j \in 1..Len(d.pulse_composition) :
                           d.pulse_composition[j].id = d.pulse_composition_old[i].id
            THEN Raised(d, "IntegrityError")
            ELSE IF ~EdgeConstraintsOk(d.pulse_composition \o CopiedAsStitch(d))
            THEN Raised(d, "IntegrityError")
            ELSE Committed([d EXCEPT !.pulse_composition = @ \o CopiedAsStitch(d)])
      [] k = 3 ->   \* drop the old table
            IF "pulse_composition_old" \notin d.tables
            THEN Raised(d, "OperationalError")
            ELSE Committed([d EXCEPT !.tables = @ \ {"pulse_composition_old"},
                                     !.pulse_composition_old = <<>>])
      [] OTHER -> _update_schema_version(d, 5)

\* MIGRATION_SCRIPTS: the version each registered step migrates to, by origin version
MIGRATION_SCRIPTS == [v \in 1..4 |-> v + 1]

\* the number of commits of the step that migrates to version target
NumCommits(target) == IF target = 5 THEN 5 ELSE 2

MigrationCommit(v, k, d) ==
    CASE MIGRATION_SCRIPTS[v] = 2 -> _migrate_to_v2(d, k)
      [] MIGRATION_SCRIPTS[v] = 3 -> _migrate_to_v3(d, k)
      [] MIGRATION_SCRIPTS[v] = 4 -> _migrate_to_v4(d, k)
      [] OTHER -> _migrate_to_v5(d, k)

(***************************************************************************)
(* The API objects of grdb/models.py.  An optional list is a record        *)
(* [some, list]; an optional number is None or the number.                 *)
(***************************************************************************)
NoList == [some |-> FALSE, list |-> <<>>]
SomeList(l) == [some |-> TRUE, list |-> l]
Truthy(opt) == opt.some /\ opt.list # <<>>      \* Python: `if trace.derived_from:`

NoPoint == [some |-> FALSE, x |-> None, y |-> None, z |-> None]
Point3D(x, y, z) == [some |-> TRUE, x |-> x, y |-> y, z |-> z]

BaseTrace(uuid, time, signal, timestamp, noise) ==
    [uuid |-> uuid, time |-> time, signal |-> signal, timestamp |-> timestamp,
     noise |-> noise]

PulseComposition(pulse, position, shift) ==
    [pulse |-> pulse, position |-> position, shift |-> shift]

Trace(base, derived_from, averaged_from) ==
    [uuid |-> base.uuid, time |-> base.time, signal |-> base.signal,
     timestamp |-> base.timestamp, noise |-> base.noise,
     derived_from |-> derived_from, averaged_from |-> averaged_from]

Measurement(pulse, point, variant, reference, annotations, pass_number) ==
    [pulse |-> pulse, point |-> point, variant |-> variant, reference |-> reference,
     annotations |-> annotations, pass_number |-> pass_number]

ValidateLineageAllowBoth(derived_from, averaged_from, nested) ==
    /\ averaged_from.some => Len(averaged_from.list) >= 2
    /\ derived_from.some => Len(derived_from.list) >= 2
    /\ Truthy(averaged_from) =>
           \A i \in 1..Len(averaged_from.list) : ~nested[i]

ValidateLineageOneEntry(derived_from, averaged_from, nested) ==
    /\ ~(Truthy(derived_from) /\ Truthy(averaged_from))
    /\ averaged_from.some => Len(averaged_from.list) >= 1
    /\ derived_from.some => Len(derived_from.list) >= 1
    /\ Truthy(averaged_from) =>
           \A i \in 1..Len(averaged_from.list) : ~nested[i]

ValidateLineageAllowNested(derived_from, averaged_from, nested) ==
    /\ ~(Truthy(derived_from) /\ Truthy(averaged_from))
    /\ averaged_from.some => Len(averaged_from.list) >= 2
    /\ derived_from.some => Len(derived_from.list) >= 2

\* Trace.validate_lineage on one Trace, given its two optional lineage lists;
\* nested[i] tells whether the i-th averaged source has averaged_from set.
validate_lineage(derived_from, averaged_from, nested) ==
    /\ ~(Truthy(derived_from) /\ Truthy(averaged_from))
    /\ averaged_from.some => Len(averaged_from.list) >= 2
    /\ derived_from.some => Len(derived_from.list) >= 2
    /\ Truthy(averaged_from) =>
           \A i \in 1..Len(averaged_from.list) : ~nested[i]

\* a Trace whose constructor did not raise: validate_lineage passed on it and,
\* before that, on each of the Traces it is averaged from
RECURSIVE ValidTrace(_)
ValidTrace(t) ==
    /\ \A i \in 1..Len(t.averaged_from.list) : ValidTrace(t.averaged_from.list[i])
    /\ validate_lineage(t.derived_from, t.averaged_from,
                        [i \in 1..Len(t.averaged_from.list) |->
                            t.averaged_from.list[i].averaged_from.some])

\* PulseDB.from_measurement
from_measurement(m) ==
    PulseRow(m.pulse.uuid, pack_floats(m.pulse.time), pack_floats(m.pulse.signal),
             m.pulse.timestamp,
             IF m.point.some THEN m.point.x ELSE None,
             IF m.point.some THEN m.point.y ELSE None,
             IF m.point.some THEN m.point.z ELSE None,
             m.reference, m.variant, m.pulse.noise, m.pass_number,
             json_dumps(IF Truthy(m.annotations) THEN m.annotations.list ELSE <<>>))

\* PulseDB.from_basetrace
from_basetrace(t) ==
    PulseRow(t.uuid, pack_floats(t.time), pack_floats(t.signal), t.timestamp,
             None, None, None, None, "other", t.noise, None, json_dumps(<<>>))

\* PulseDB.to_basetrace
to_basetrace(row) ==
    BaseTrace(row.uuid, unpack_floats(row.time), unpack_floats(row.signal),
              row.timestamp, row.noise)

ToMeasurementKeepPoint(row, stitching, averaged_from) ==
    Measurement(Trace(to_basetrace(row), stitching, averaged_from),
                Point3D(row.x, row.y, row.z),
                row.variant, row.reference,
                SomeList(json_loads(IF row.annotations.null THEN json_dumps(<<>>)
                                    ELSE row.annotations)),
                row.pass_number)

\* PulseDB.to_measurement
to_measurement(row, stitching, averaged_from) ==
    Measurement(Trace(to_basetrace(row), stitching, averaged_from),
                IF row.x = None /\ row.y = None /\ row.z = None THEN NoPoint
                ELSE Point3D(row.x, row.y, row.z),
                row.variant, row.reference,
                SomeList(json_loads(IF row.annotations.null THEN json_dumps(<<>>)
                                    ELSE row.annotations)),
                row.pass_number)

(***************************************************************************)
(* Write path: add_pulses, _maybe_add_stitched, _maybe_add_averaged.       *)
(* The session collects pulse rows and edges in the order of session.add;  *)
(* the commit inserts the pulse rows, then the edges, each in that order,  *)
(* and raises IntegrityError (nothing is kept) when a constraint fails.    *)
(***************************************************************************)
\* the pulse rows _maybe_add_stitched adds for a trace
StitchedPulses(trace) ==
    IF Truthy(trace.derived_from)
    THEN [i \in 1..Len(trace.derived_from.list) |->
             from_basetrace(trace.derived_from.list[i].pulse)]
    ELSE <<>>

\* the edges _maybe_add_stitched adds for a trace (the id is given at insertion)
_maybe_add_stitched(trace) ==
    IF Truthy(trace.derived_from)
    THEN [i \in 1..Len(trace.derived_from.list) |->
             LET comp == trace.derived_from.list[i]
             IN  EdgeRow(None, trace.uuid, comp.pulse.uuid, comp.position,
                         comp.shift, "stitch")]
    ELSE <<>>

RECURSIVE AveragedPulsesOf(_)
AveragedPulsesOf(sources) ==
    IF sources = <<>> THEN <<>>
    ELSE <<from_basetrace(Head(sources))>> \o StitchedPulses(Head(sources))
         \o AveragedPulsesOf(Tail(sources))

RECURSIVE AveragedEdgesOf(_, _)
AveragedEdgesOf(final_uuid, sources) ==
    IF sources = <<>> THEN <<>>
    ELSE <<EdgeRow(None, final_uuid, Head(sources).uuid, None, None, "average")>>
         \o _maybe_add_stitched(Head(sources))
         \o AveragedEdgesOf(final_uuid, Tail(sources))

\* the pulse rows _maybe_add_averaged adds for a trace
AveragedPulses(trace) ==
    IF Truthy(trace.averaged_from) THEN AveragedPulsesOf(trace.averaged_from.list)
    ELSE <<>>

\* the edges _maybe_add_averaged adds for a trace
_maybe_add_averaged(trace) ==
    IF Truthy(trace.averaged_from)
    THEN AveragedEdgesOf(trace.uuid, trace.averaged_from.list)
    ELSE <<>>

RECURSIVE SourcePulsesOf(_)
\* the pulse rows added by the loop of add_pulses over the batch
SourcePulsesOf(pulses) ==
    IF pulses = <<>> THEN <<>>
    ELSE StitchedPulses(Head(pulses).pulse) \o AveragedPulses(Head(pulses).pulse)
         \o SourcePulsesOf(Tail(pulses))

RECURSIVE EdgesOf(_)
\* the edges added by the loop of add_pulses over the batch
EdgesOf(pulses) ==
    IF pulses = <<>> THEN <<>>
    ELSE _maybe_add_stitched(Head(pulses).pulse) \o _maybe_add_averaged(Head(pulses).pulse)
         \o EdgesOf(Tail(pulses))

PulseKeyIgnored(rows) == TRUE

\* PRIMARY KEY of pulses: no two rows with one uuid
PulseKeyOk(rows) ==
    \A i, j \in 1..Len(rows) : rows[i].uuid = rows[j].uuid => i = j

\* the id SQLite gives the next row of a table with an INTEGER PRIMARY KEY
RECURSIVE MaxId(_)
MaxId(rows) ==
    IF rows = <<>> THEN 0
    ELSE LET m == MaxId(Tail(rows)) IN IF Head(rows).id > m THEN Head(rows).id ELSE m

WithIds(old, new) ==
    [i \in 1..Len(new) |-> [new[i] EXCEPT !.id = MaxId(old) + i]]

AddPulsesKeepsFinals(d, pulses) ==
    LET finals == d.pulses \o [i \in 1..Len(pulses) |-> from_measurement(pulses[i])]
        rows == finals \o SourcePulsesOf(pulses)
        edges == d.pulse_composition \o WithIds(d.pulse_composition, EdgesOf(pulses))
    IN  IF PulseKeyOk(rows) /\ EdgeConstraintsOk(edges)
        THEN Committed([d EXCEPT !.pulses = rows, !.pulse_composition = edges])
        ELSE IF PulseKeyOk(finals)
        THEN Raised([d EXCEPT !.pulses = finals], "IntegrityError")
        ELSE Raised(d, "IntegrityError")

\* add_pulses on an opened file
add_pulses(d, pulses) ==
    LET rows == d.pulses \o [i \in 1..Len(pulses) |-> from_measurement(pulses[i])]
                \o SourcePulsesOf(pulses)
        edges == d.pulse_composition \o WithIds(d.pulse_composition, EdgesOf(pulses))
    IN  IF PulseKeyOk(rows) /\ EdgeConstraintsOk(edges)
        THEN Committed([d EXCEPT !.pulses = rows, !.pulse_composition = edges])
        ELSE Raised(d, "IntegrityError")

(***************************************************************************)
(* Read path: load_pulses and its helpers.                                 *)
(***************************************************************************)
SourceUuids(d) == {d.pulse_composition[i].source_uuid : i \in 1..Len(d.pulse_composition)}

Page(rows, offset, limit) == SubSeq(rows, offset + 1, Min(Len(rows), offset + limit))

GetAllPulseRows(d, offset, limit, variant) ==
    Page(SelectSeq(d.pulses, LAMBDA r : variant = NoVariant \/ r.variant = variant),
         offset, limit)

GetFinalRowsPageFirst(d, offset, limit, variant) ==
    SelectSeq(Page(d.pulses, offset, limit),
              LAMBDA r : /\ r.uuid \notin SourceUuids(d)
                         /\ (variant = NoVariant \/ r.variant = variant))

\* _get_final_pulse_rows; variant = NoVariant stands for variant=None
_get_final_pulse_rows(d, offset, limit, variant) ==
    Page(SelectSeq(d.pulses,
                   LAMBDA r : /\ r.uuid \notin SourceUuids(d)
                              /\ (variant = NoVariant \/ r.variant = variant)),
         offset, limit)

\* _get_pulse_compositions: the edges of the given finals, grouped by final_uuid
_get_pulse_compositions(d, final_ids) ==
    LET rows == SelectSeq(d.pulse_composition, LAMBDA r : r.final_uuid \in final_ids)
    IN  [u \in {rows[i].final_uuid : i \in 1..Len(rows)} |->
            SelectSeq(rows, LAMBDA r : r.final_uuid = u)]

RECURSIVE FlattenSources(_, _)
\* the source_uuid of every row of compositions, final by final, for the finals in order
FlattenSources(compositions, order) ==
    IF order = <<>> THEN <<>>
    ELSE (IF Head(order) \in DOMAIN compositions
          THEN [i \in 1..Len(compositions[Head(order)]) |->
                   compositions[Head(order)][i].source_uuid]
          ELSE <<>>)
         \o FlattenSources(compositions, Tail(order))

\* the keys of a dict of compositions in a fixed order
RECURSIVE KeysInOrder(_)
KeysInOrder(keys) ==
    IF keys = {} THEN <<>>
    ELSE LET k == CHOOSE x \in keys : \A y \in keys : x <= y
         IN  <<k>> \o KeysInOrder(keys \ {k})

\* _extract_unprocessed_source_uuids
_extract_unprocessed_source_uuids(compositions, processed_uuids) ==
    SelectSeq(FlattenSources(compositions, KeysInOrder(DOMAIN compositions)),
              LAMBDA u : u \notin processed_uuids)

\* dict.update
DictUpdate(f, g) ==
    [k \in DOMAIN f \cup DOMAIN g |-> IF k \in DOMAIN g THEN g[k] ELSE f[k]]

\* struct.unpack raises on the time or signal blob of a pulse row
BadBlob(row) == struct_error(row.time) \/ struct_error(row.signal)

\* one pass of the while loop of _load_all_sources over the state st of the loop:
\* its dicts, its set of processed uuids, its list to_load
LoadIteration(d, st) ==
    LET current_batch == Range(st.to_load)
        pulses == SelectSeq(d.pulses, LAMBDA r : r.uuid \in current_batch)
        loaded == [u \in {pulses[i].uuid : i \in 1..Len(pulses)} |->
                     to_basetrace(CHOOSE r \in Range(pulses) : r.uuid = u)]
        processed == st.processed \cup DOMAIN loaded
        batch_comps == _get_pulse_compositions(d, current_batch)
    IN  IF \E i \in 1..Len(pulses) : BadBlob(pulses[i])
        THEN [st EXCEPT !.error = "struct.error"]
        ELSE [sources |-> DictUpdate(st.sources, loaded),
              compositions |-> DictUpdate(st.compositions, batch_comps),
              processed |-> processed,
              to_load |-> _extract_unprocessed_source_uuids(batch_comps, processed),
              error |-> "none"]

RECURSIVE LoadLoop(_, _, _, _, _)
\* the while loop of _load_all_sources
LoadLoop(d, all_sources, all_compositions, processed_uuids, to_load) ==
    LET st == [sources |-> all_sources, compositions |-> all_compositions,
               processed |-> processed_uuids, to_load |-> to_load, error |-> "none"]
        next == LoadIteration(d, st)
    IN  IF to_load = <<>> THEN st
        ELSE IF next.error # "none" THEN next
        ELSE LoadLoop(d, next.sources, next.compositions, next.processed, next.to_load)

\* _load_all_sources
_load_all_sources(d, pulse_sources) ==
    LoadLoop(d, <<>>, pulse_sources, {},
             FlattenSources(pulse_sources, KeysInOrder(DOMAIN pulse_sources)))

RECURSIVE InsertByPosition(_, _)
\* insert row into a list sorted by `position or 0`, after the rows with an equal key
InsertByPosition(sorted, row) ==
    LET key(r) == IF r.position = None THEN 0 ELSE r.position
    IN  IF sorted = <<>> THEN <<row>>
        ELSE IF key(Head(sorted)) <= key(row)
             THEN <<Head(sorted)>> \o InsertByPosition(Tail(sorted), row)
             ELSE <<row>> \o sorted

RECURSIVE SortedByPosition(_)
\* sorted(stitch_rows, key=lambda r: r.position or 0): a stable sort
SortedByPosition(rows) ==
    IF rows = <<>> THEN <<>>
    ELSE InsertByPosition(SortedByPosition(SubSeq(rows, 1, Len(rows) - 1)),
                          rows[Len(rows)])

\* The result of a helper that may raise: [error, value].
Value(v) == [error |-> "none", value |-> v]
Raise(err) == [error |-> err, value |-> NoList]

StitchingInfoInsertionOrder(derived_uuid, all_compositions, sources) ==
    IF derived_uuid \notin DOMAIN all_compositions THEN Value(NoList)
    ELSE LET stitch_rows == SelectSeq(all_compositions[derived_uuid],
                                      LAMBDA r : r.composition_type = "stitch")
         IN  IF stitch_rows = <<>> THEN Value(NoList)
             ELSE IF \E i \in 1..Len(stitch_rows) :
                         stitch_rows[i].source_uuid \notin DOMAIN sources
             THEN Raise("KeyError")
             ELSE Value(SomeList([i \in 1..Len(stitch_rows) |->
                     PulseComposition(sources[stitch_rows[i].source_uuid],
                                      stitch_rows[i].position, stitch_rows[i].shift)]))

\* _maybe_build_stitching_info
_maybe_build_stitching_info(derived_uuid, all_compositions, sources) ==
    IF derived_uuid \notin DOMAIN all_compositions THEN Value(NoList)
    ELSE LET stitch_rows == SelectSeq(all_compositions[derived_uuid],
                                      LAMBDA r : r.composition_type = "stitch")
             stitch_rows_sorted == SortedByPosition(stitch_rows)
         IN  IF stitch_rows = <<>> THEN Value(NoList)
             ELSE IF \E i \in 1..Len(stitch_rows) :
                         stitch_rows[i].source_uuid \notin DOMAIN sources
             THEN Raise("KeyError")
             ELSE Value(SomeList([i \in 1..Len(stitch_rows_sorted) |->
                     PulseComposition(sources[stitch_rows_sorted[i].source_uuid],
                                      stitch_rows_sorted[i].position,
                                      stitch_rows_sorted[i].shift)]))

AveragingInfoNoNestedStitch(derived_uuid, all_compositions, sources) ==
    IF derived_uuid \notin DOMAIN all_compositions THEN Value(NoList)
    ELSE LET average_rows ==
                 SelectSeq(all_compositions[derived_uuid],
                           LAMBDA r : /\ r.composition_type = "average"
                                      /\ r.source_uuid \in DOMAIN sources)
         IN  IF average_rows = <<>> THEN Value(NoList)
             ELSE Value(SomeList([i \in 1..Len(average_rows) |->
                     Trace(sources[average_rows[i].source_uuid], NoList, NoList)]))

\* _maybe_build_averaging_info
_maybe_build_averaging_info(derived_uuid, all_compositions, sources) ==
    IF derived_uuid \notin DOMAIN all_compositions THEN Value(NoList)
    ELSE LET average_rows ==
                 SelectSeq(all_compositions[derived_uuid],
                           LAMBDA r : /\ r.composition_type = "average"
                                      /\ r.source_uuid \in DOMAIN sources)
             stitching(i) == _maybe_build_stitching_info(
                                 average_rows[i].source_uuid, all_compositions, sources)
         IN  IF average_rows = <<>> THEN Value(NoList)
             ELSE IF \E i \in 1..Len(average_rows) : stitching(i).error # "none"
             THEN Raise("KeyError")
             ELSE IF \E i \in 1..Len(average_rows) :
                         ~validate_lineage(stitching(i).value, NoList, <<>>)
             THEN Raise("ValidationError")
             ELSE Value(SomeList([i \in 1..Len(average_rows) |->
                     Trace(sources[average_rows[i].source_uuid],
                           stitching(i).value, NoList)]))

\* the Measurement load_pulses builds for one final row, or the error raised
BuildMeasurement(final_pulse, all_compositions, sources) ==
    LET stitching == _maybe_build_stitching_info(final_pulse.uuid, all_compositions, sources)
        averaging == _maybe_build_averaging_info(final_pulse.uuid, all_compositions, sources)
    IN  IF stitching.error # "none" THEN [error |-> stitching.error, value |-> <<>>]
        ELSE IF averaging.error # "none" THEN [error |-> averaging.error, value |-> <<>>]
        ELSE IF BadBlob(final_pulse) THEN [error |-> "struct.error", value |-> <<>>]
        ELSE IF ~validate_lineage(stitching.value, averaging.value,
                                  [j \in 1..Len(averaging.value.list) |-> FALSE])
        THEN [error |-> "ValidationError", value |-> <<>>]
        ELSE [error |-> "none",
              value |-> <<to_measurement(final_pulse, stitching.value, averaging.value)>>]

\* the loop of load_pulses over the final rows: [error, list]
BuildResults(final_pulse_rows, all_compositions, sources) ==
    LET built == [i \in 1..Len(final_pulse_rows) |->
                     BuildMeasurement(final_pulse_rows[i], all_compositions, sources)]
    IN  IF \E i \in 1..Len(built) : built[i].error # "none"
        THEN [error |-> built[CHOOSE i \in 1..Len(built) :
                                  /\ built[i].error # "none"
                                  /\ \A j \in 1..(i - 1) : built[j].error = "none"].error,
              list |-> <<>>]
        ELSE [error |-> "none", list |-> [i \in 1..Len(built) |-> built[i].value[1]]]

\* load_pulses on an opened file: [error, list]
load_pulses(d, offset, limit, variant) ==
    LET final_pulse_rows == _get_final_pulse_rows(d, offset, limit, variant)
        final_pulse_compositions ==
            _get_pulse_compositions(d, {final_pulse_rows[i].uuid :
                                           i \in 1..Len(final_pulse_rows)})
        loaded == _load_all_sources(d, final_pulse_compositions)
    IN  IF loaded.error # "none" THEN [error |-> loaded.error, list |-> <<>>]
        ELSE BuildResults(final_pulse_rows, loaded.compositions, loaded.sources)

(***************************************************************************)
(* Session metadata: create_db, load_metadata, update_annotations, and     *)
(* update_references.                                                      *)
(***************************************************************************)
\* RasterInfoDB(...): the row of raster_info; only id and annotations vary here
RasterInfoRow(id, annotations) == [id |-> id, annotations |-> json_dumps(annotations)]

\* the id of a raster_info row created with raster_id=None (uuid4())
GeneratedId(d) == 100 + Len(d.raster_info)

\* create_db: config_ok is the outcome of the variant/config check of
\* RasterInfoDB.from_api, which runs after create_tables
create_db(d, config_ok, raster_id, annotations) ==
    LET e == create_tables(d)
        id == IF raster_id = None THEN GeneratedId(e) ELSE raster_id
    IN  IF ~config_ok THEN Raised(e, "ValueError")
        ELSE IF ~(ColumnsOf({"raster_info"}) \subseteq e.columns)
        THEN Raised(e, "OperationalError")
        ELSE IF \E i \in 1..Len(e.raster_info) : e.raster_info[i].id = id
        THEN Raised(e, "IntegrityError")
        ELSE Committed([e EXCEPT
                !.schema_version = Append(@, CURRENT_SCHEMA_VERSION),
                !.raster_info = Append(@, RasterInfoRow(id, annotations))])

CountFinalsAnyVariant(d, variant) ==
    Len(SelectSeq(d.pulses, LAMBDA r : r.uuid \notin SourceUuids(d)))

\* the count queries of load_metadata: final pulses of one variant
CountFinals(d, variant) ==
    Len(SelectSeq(d.pulses, LAMBDA r : r.uuid \notin SourceUuids(d) /\ r.variant = variant))

\* load_metadata on an opened file: [error, annotations, n_refs, n_samples]
load_metadata(d) ==
    IF d.raster_info = <<>>
    THEN [error |-> "ValueError", annotations |-> <<>>, n_refs |-> 0, n_samples |-> 0]
    ELSE [error |-> "none",
          annotations |-> json_loads(d.raster_info[1].annotations),
          n_refs |-> CountFinals(d, "reference"),
          n_samples |-> CountFinals(d, "sample")]

UpdateAnnotationsSkipsEmpty(d, annotations) ==
    IF d.raster_info = <<>> THEN Raised(d, "ValueError")
    ELSE IF annotations = <<>> THEN Committed(d)
    ELSE Committed([d EXCEPT !.raster_info[1].annotations = json_dumps(annotations)])

\* update_annotations on an opened file
update_annotations(d, annotations) ==
    IF d.raster_info = <<>> THEN Raised(d, "ValueError")
    ELSE Committed([d EXCEPT !.raster_info[1].annotations = json_dumps(annotations)])

UpdateReferencesNoTargetCheck(d, measurement_ids, reference_uuid) ==
    LET stored == {d.pulses[i].uuid : i \in 1..Len(d.pulses)}
    IN  IF measurement_ids \ stored # {} THEN Raised(d, "ValueError")
        ELSE Committed([d EXCEPT !.pulses =
                [i \in 1..Len(@) |->
                    IF @[i].uuid \in measurement_ids
                    THEN [@[i] EXCEPT !.reference = reference_uuid] ELSE @[i]]])

\* update_references on an opened file, measurement_ids not empty
update_references(d, measurement_ids, reference_uuid) ==
    LET stored == {d.pulses[i].uuid : i \in 1..Len(d.pulses)}
    IN  IF measurement_ids \ stored # {} THEN Raised(d, "ValueError")
        ELSE IF reference_uuid # None /\ reference_uuid \notin stored
        THEN Raised(d, "ValueError")
        ELSE Committed([d EXCEPT !.pulses =
                [i \in 1..Len(@) |->
                    IF @[i].uuid \in measurement_ids
                    THEN [@[i] EXCEPT !.reference = reference_uuid] ELSE @[i]]])

(***************************************************************************)
(* Inputs.  Uuids are opaque, so a new uuid is always the smallest unused *)
(* one; a batch names new uuids, repeats a uuid, or names stored uuids as  *)
(* the sources of a composite.                                             *)
(***************************************************************************)
StoredUuids(d) == {d.pulses[i].uuid : i \in 1..Len(d.pulses)}

\* a plain trace; its waveform depends on its uuid
PlainBase(u) == BaseTrace(u, <<0, 2>>, <<2 * u>>, 1000 + u, None)
PlainTrace(u) == Trace(PlainBase(u), NoList, NoList)

\* a derived_from list over the sources srcs with the positions pos; the shift of
\* an entry is its rank in the written list
StitchList(srcs, pos) ==
    [i \in 1..Len(srcs) |-> PulseComposition(PlainBase(srcs[i]), pos[i], i)]

StitchedTrace(u, srcs, pos) ==
    Trace(PlainBase(u), SomeList(StitchList(srcs, pos)), NoList)

PlainMeasurement(trace, variant) ==
    Measurement(trace, Point3D(1, None, 0), variant, None, SomeList(<<>>), None)

Shapes == {"plain", "stitched2", "stitched3", "averaged", "averaged_stitched_first",
           "averaged_stitched_last"}

\* the number of pulses (the final and all its sources) of a shape
Slots(shape) ==
    CASE shape = "plain" -> 1
      [] shape = "stitched2" -> 3
      [] shape = "stitched3" -> 4
      [] shape = "averaged" -> 3
      [] OTHER -> 5

\* the number of stitch positions a shape takes
Stitches(shape) ==
    CASE shape = "plain" -> 0
      [] shape = "stitched3" -> 3
      [] shape = "averaged" -> 0
      [] OTHER -> 2

\* the trace of a shape over the uuids v, with the stitch positions pos
ShapedTrace(shape, v, pos) ==
    CASE shape = "plain" -> PlainTrace(v[1])
      [] shape = "stitched2" -> StitchedTrace(v[1], <<v[2], v[3]>>, pos)
      [] shape = "stitched3" -> StitchedTrace(v[1], <<v[2], v[3], v[4]>>, pos)
      [] shape = "averaged" ->
            Trace(PlainBase(v[1]), NoList, SomeList(<<PlainTrace(v[2]), PlainTrace(v[3])>>))
      [] shape = "averaged_stitched_first" ->
            Trace(PlainBase(v[1]), NoList,
                  SomeList(<<StitchedTrace(v[2], <<v[3], v[4]>>, pos), PlainTrace(v[5])>>))
      [] OTHER ->
            Trace(PlainBase(v[1]), NoList,
                  SomeList(<<PlainTrace(v[2]), StitchedTrace(v[3], <<v[4], v[5]>>, pos)>>))

\* the position lists offered for n stitch entries: every list of distinct
\* positions, and the list that repeats position 0
Positions(n) ==
    {pos \in [1..n -> 0..MaxPosition] :
        \/ \A i, j \in 1..n : pos[i] = pos[j] => i = j
        \/ \A i \in 1..n : pos[i] = 0}

Ascending(n) == [i \in 1..n |-> i - 1]

RECURSIVE Lowest(_, _)
\* the k smallest uuids of the set from, ascending
Lowest(k, from) ==
    IF k = 0 THEN <<>>
    ELSE LET u == CHOOSE x \in from : \A w \in from : x <= w
         IN  <<u>> \o Lowest(k - 1, from \ {u})

RECURSIVE Highest(_, _)
\* the k largest uuids of the set from, ascending
Highest(k, from) ==
    IF k = 0 THEN <<>>
    ELSE LET u == CHOOSE x \in from : \A w \in from : x >= w
         IN  Highest(k - 1, from \ {u}) \o <<u>>

\* uuid vectors that repeat a uuid: the fresh vector with one uuid replaced by the
\* smallest used one, by the first of the vector or by its left neighbour
RepeatingVectors(n, used) ==
    IF Cardinality(UUIDs \ used) < n THEN {}
    ELSE LET fresh == Lowest(n, UUIDs \ used)
             stored == IF used = {} THEN {}
                       ELSE {CHOOSE u \in used : \A w \in used : u <= w}
         IN  UNION {{[fresh EXCEPT ![i] = u] :
                        u \in stored \cup {fresh[1]} \cup {fresh[j] : j \in {i - 1} \ {0}}} :
                    i \in 1..n}
             \ {fresh}

\* uuid vectors of a composite over pulses that are stored already: a fresh final
\* uuid, the sources the n - 1 smallest or the n - 1 largest used uuids
StoredSourceVectors(n, used) ==
    IF n < 2 \/ Cardinality(used) < n - 1 \/ UUIDs \ used = {} THEN {}
    ELSE {Lowest(1, UUIDs \ used) \o Lowest(n - 1, used),
          Lowest(1, UUIDs \ used) \o Highest(n - 1, used)}

FinalVariants == {"sample", "reference"}

\* the measurements of one shape that a caller can build when the uuids of the set
\* used are taken: over fresh uuids with any variant and any offered positions,
\* over repeated or stored uuids as a sample with ascending positions
MeasurementsOf(sh, used) ==
    LET n == Slots(sh)
        k == Stitches(sh)
    IN  {PlainMeasurement(ShapedTrace(sh, v, Ascending(k)), "sample") :
            v \in RepeatingVectors(n, used) \cup StoredSourceVectors(n, used)}
        \cup (IF Cardinality(UUIDs \ used) < n THEN {}
              ELSE {PlainMeasurement(ShapedTrace(sh, Lowest(n, UUIDs \ used), pos), variant) :
                       pos \in Positions(k), variant \in FinalVariants})

Measurements(used, shapes) == UNION {MeasurementsOf(sh, used) : sh \in shapes}

\* every uuid a trace names: its own, its stitch sources, its averaged sources
TraceUuids(t) ==
    {t.uuid}
    \cup {t.derived_from.list[i].pulse.uuid : i \in 1..Len(t.derived_from.list)}
    \cup UNION {{t.averaged_from.list[i].uuid}
                \cup {t.averaged_from.list[i].derived_from.list[j].pulse.uuid :
                         j \in 1..Len(t.averaged_from.list[i].derived_from.list)} :
                i \in 1..Len(t.averaged_from.list)}

\* batches of two measurements: one of the shapes first over fresh uuids with
\* ascending positions, followed by one of the shapes second
Batches(d, first, second) ==
    LET used == StoredUuids(d)
        firsts == {PlainMeasurement(ShapedTrace(sh, Lowest(Slots(sh), UUIDs \ used),
                                                Ascending(Stitches(sh))), "sample") :
                      sh \in {x \in first : Cardinality(UUIDs \ used) >= Slots(x)}}
    IN  UNION {{<<m, n>> : n \in Measurements(used \cup TraceUuids(m.pulse), second)} :
               m \in firsts}

(***************************************************************************)
(* Files.                                                                  *)
(***************************************************************************)
\* the file right after create_db(path, ...) on a path without a file
NewFile == create_db(NoFile, TRUE, None, <<>>).db

\* a pulse row as the program version of schema v wrote it
LegacyPulse(v, uuid, flag) ==
    [PulseRow(uuid, pack_floats(<<0, 2>>), pack_floats(<<2 * uuid>>), 1000 + uuid,
              1, None, 0, None,
              IF v <= 2 THEN NoVariant ELSE IF flag = 1 THEN "reference" ELSE "sample",
              None, None,
              IF v <= 2 THEN NullCell ELSE json_dumps(<<>>))
     EXCEPT !.is_reference = IF v <= 2 THEN flag ELSE None]

\* a file of schema version v holding one plain pulse per flag and, when stitched,
\* one pulse stitched from two sources
FileAt(v, flags, stitched) ==
    LET n == Len(flags)
        composed == IF stitched THEN <<n + 1, n + 2, n + 3>> ELSE <<>>
        type == IF v <= 4 THEN NoVariant ELSE "stitch"
    IN  [exists |-> TRUE,
         tables |-> {"raster_info", "pulses", "pulse_composition"}
                    \cup (IF v >= 2 THEN {"schema_version"} ELSE {}),
         columns |-> ColumnsAt(v),
         schema_version |-> IF v >= 2 THEN <<v>> ELSE <<>>,
         raster_info |-> <<RasterInfoRow(100, <<>>)>>,
         pulses |-> [i \in 1..n |-> LegacyPulse(v, i, flags[i])]
                    \o [i \in 1..Len(composed) |-> LegacyPulse(v, composed[i], 0)],
         pulse_composition |->
             IF stitched
             THEN <<EdgeRow(1, n + 1, n + 2, 1, 1, type), EdgeRow(2, n + 1, n + 3, 0, 2, type)>>
             ELSE <<>>,
         pulse_composition_old |-> <<>>]

LegacyFlags == {<<>>, <<0>>, <<1>>, <<1, 0>>}

(***************************************************************************)
(* The calls.  Every public operation but create_db opens the file through *)
(* _make_engine, which runs _ensure_schema_compatibility: Call, then Loop  *)
(* and MigrationStep until the loop ends, then the body of the operation.  *)
(***************************************************************************)
Ops == {"load_metadata", "load_pulses", "add_pulses", "update_annotations",
        "update_references"}

\* the variant filters of load_pulses; NoVariant stands for variant=None
Filters == {NoVariant, "sample", "reference", "other"}

\* the limits of load_pulses: the small ones, and one no smaller than the pulse table
Limits == 0..MaxLimit \cup {MaxRows}

NoReturn == [offset |-> 0, limit |-> 0, variant |-> NoVariant, list |-> <<>>,
             annotations |-> <<>>, n_refs |-> 0, n_samples |-> 0]

\* the arguments a call records: those of update_annotations, update_references and
\* create_db; no_ids tells that update_references was called without measurement_ids
NoArgs == [annotations |-> <<>>, measurement_ids |-> {}, reference_uuid |-> None,
           no_ids |-> FALSE, config_ok |-> TRUE, raster_id |-> None]

\* _load_all_sources not entered: its dicts, its set and its list are empty.  rows are
\* the final rows of the page; reloaded tells that a pass loaded a pulse row that an
\* earlier pass had loaded; pass is the parity of the number of passes made
NoLoader == [sources |-> <<>>, compositions |-> <<>>, processed |-> {}, to_load |-> <<>>,
             error |-> "none", rows |-> <<>>, reloaded |-> FALSE, pass |-> 0]

\* a call returns or raises: the session is closed, the outcome recorded
Finish(d, outcome, ret, wr, pulses) ==
    /\ db' = d
    /\ pc' = "idle"
    /\ result' = outcome
    /\ returned' = ret
    /\ written' = wr
    /\ batch' = pulses
    /\ UNCHANGED <<op, schema_version, commit_no, start_version, steps_run, before, loader>>

PathAlwaysExists(d) == TRUE

\* _make_engine: `if not path.exists()`
PathExists(d) == d.exists

\* _make_engine up to the first read of the version in _ensure_schema_compatibility
Call(o) ==
    /\ pc = "idle"
    /\ op' = o
    /\ before' = db
    /\ returned' = NoReturn
    /\ batch' = <<>>
    /\ steps_run' = <<>>
    /\ commit_no' = 0
    /\ args' = NoArgs
    /\ IF ~PathExists(db)
       THEN /\ pc' = "idle"
            /\ result' = "FileNotFoundError"
            /\ UNCHANGED <<schema_version, start_version>>
       ELSE /\ pc' = "loop"
            /\ result' = "none"
            /\ schema_version' = IF _get_schema_version(db) = None THEN 1
                                 ELSE _get_schema_version(db)
            /\ start_version' = schema_version'
    /\ UNCHANGED <<db, written, loader>>

\* the test of the while loop of _ensure_schema_compatibility and the lookup of the step
Loop ==
    /\ pc = "loop"
    /\ IF schema_version < CURRENT_SCHEMA_VERSION
       THEN IF schema_version \in DOMAIN MIGRATION_SCRIPTS
            THEN /\ pc' = "step"
                 /\ commit_no' = 0
                 /\ UNCHANGED result
            ELSE /\ pc' = "idle"
                 /\ result' = "KeyError"
                 /\ UNCHANGED commit_no
       ELSE /\ pc' = "opened"
            /\ UNCHANGED <<result, commit_no>>
    /\ UNCHANGED <<db, op, schema_version, start_version, steps_run, before, returned,
                   batch, written, args, loader>>

\* the next commit of the running migration step; after the last one, schema_version += 1
MigrationStep ==
    /\ pc = "step"
    /\ LET r == MigrationCommit(schema_version, commit_no, db)
           last == commit_no + 1 = NumCommits(MIGRATION_SCRIPTS[schema_version])
       IN  /\ db' = r.db
           /\ IF ~r.ok
              THEN /\ pc' = "idle"
                   /\ result' = r.error
                   /\ UNCHANGED <<schema_version, commit_no, steps_run>>
              ELSE IF last
              THEN /\ pc' = "loop"
                   /\ schema_version' = schema_version + 1
                   /\ steps_run' = Append(steps_run, schema_version)
                   /\ UNCHANGED <<commit_no, result>>
              ELSE /\ commit_no' = commit_no + 1
                   /\ UNCHANGED <<pc, schema_version, steps_run, result>>
    /\ UNCHANGED <<op, start_version, before, returned, batch, written, args, loader>>

\* the process dies inside a call: the file keeps what was committed
Crash ==
    /\ pc # "idle"
    /\ pc' = "idle"
    /\ result' = "crashed"
    /\ UNCHANGED <<db, op, schema_version, commit_no, start_version, steps_run, before,
                   returned, batch, written, args, loader>>

LoadMetadata ==
    /\ pc = "opened" /\ op = "load_metadata"
    /\ LET r == load_metadata(db)
       IN  Finish(db, IF r.error = "none" THEN "ok" ELSE r.error,
                  [NoReturn EXCEPT !.annotations = r.annotations, !.n_refs = r.n_refs,
                                   !.n_samples = r.n_samples],
                  written, <<>>)
    /\ UNCHANGED args

LoadPulses ==
    /\ pc = "opened" /\ op = "load_pulses"
    /\ \E offset \in 0..MaxLimit, limit \in Limits, variant \in Filters :
           LET r == load_pulses(db, offset, limit, variant)
           IN  Finish(db, IF r.error = "none" THEN "ok" ELSE r.error,
                      [NoReturn EXCEPT !.offset = offset, !.limit = limit,
                                       !.variant = variant, !.list = r.list],
                      written, <<>>)
    /\ UNCHANGED args

\* load_pulses pass by pass.  Its start: the final rows of a page of the set pages,
\* their compositions, and the locals of _load_all_sources before its loop
LoadPulsesBegin(pages) ==
    /\ pc = "opened" /\ op = "load_pulses"
    /\ \E page \in pages :
           LET rows == _get_final_pulse_rows(db, page.offset, page.limit, page.variant)
               comps == _get_pulse_compositions(db, {rows[i].uuid : i \in 1..Len(rows)})
           IN  /\ loader' = [NoLoader EXCEPT
                                !.rows = rows, !.compositions = comps,
                                !.to_load = FlattenSources(comps, KeysInOrder(DOMAIN comps))]
               /\ returned' = [NoReturn EXCEPT !.offset = page.offset, !.limit = page.limit,
                                               !.variant = page.variant]
    /\ pc' = "loading"
    /\ UNCHANGED <<db, op, schema_version, commit_no, start_version, steps_run, before,
                   result, batch, written, args>>

\* one pass of the while loop of _load_all_sources
LoadPulsesPass ==
    /\ pc = "loading"
    /\ loader.to_load # <<>> /\ loader.error = "none"
    /\ LET next == LoadIteration(db, loader)
       IN  loader' = [loader EXCEPT
                         !.sources = next.sources, !.compositions = next.compositions,
                         !.processed = next.processed, !.to_load = next.to_load,
                         !.error = next.error,
                         !.reloaded = @ \/ \E u \in Range(loader.to_load) :
                                              /\ u \in loader.processed
                                              /\ u \in StoredUuids(db),
                         !.pass = 1 - @]
    /\ UNCHANGED <<db, pc, op, schema_version, commit_no, start_version, steps_run, before,
                   result, returned, batch, written, args>>

\* the loop of _load_all_sources is left: load_pulses builds its results and returns
LoadPulsesEnd ==
    /\ pc = "loading"
    /\ loader.to_load = <<>> \/ loader.error # "none"
    /\ LET r == IF loader.error # "none" THEN [error |-> loader.error, list |-> <<>>]
                ELSE BuildResults(loader.rows, loader.compositions, loader.sources)
       IN  Finish(db, IF r.error = "none" THEN "ok" ELSE r.error,
                  [returned EXCEPT !.list = r.list], written, <<>>)
    /\ UNCHANGED args

\* add_pulses with a batch of the set batches; a Trace exists only if it validates
AddPulses(batches) ==
    /\ pc = "opened" /\ op = "add_pulses"
    /\ \E pulses \in batches :
           /\ \A i \in 1..Len(pulses) : ValidTrace(pulses[i].pulse)
           /\ LET r == add_pulses(db, pulses)
              IN  Finish(r.db, IF r.ok THEN "ok" ELSE r.error, NoReturn,
                         IF r.ok THEN written \o pulses ELSE written, pulses)
    /\ UNCHANGED args

UpdateAnnotations(annotations) ==
    /\ pc = "opened" /\ op = "update_annotations"
    /\ LET r == update_annotations(db, annotations)
       IN  Finish(r.db, IF r.ok THEN "ok" ELSE r.error, NoReturn, written, <<>>)
    /\ args' = [NoArgs EXCEPT !.annotations = annotations]

UpdateReferences(measurement_ids, reference_uuid) ==
    /\ pc = "opened" /\ op = "update_references"
    /\ measurement_ids # {}
    /\ LET r == update_references(db, measurement_ids, reference_uuid)
       IN  Finish(r.db, IF r.ok THEN "ok" ELSE r.error, NoReturn, written, <<>>)
    /\ args' = [NoArgs EXCEPT !.measurement_ids = measurement_ids,
                              !.reference_uuid = reference_uuid]

\* update_references with no measurement_ids returns before it opens the file
UpdateReferencesNothing ==
    /\ pc = "idle"
    /\ op' = "update_references"
    /\ before' = db
    /\ result' = "ok"
    /\ returned' = NoReturn
    /\ batch' = <<>>
    /\ args' = [NoArgs EXCEPT !.no_ids = TRUE]
    /\ UNCHANGED <<db, pc, schema_version, commit_no, start_version, steps_run, written,
                   loader>>

CreateDb(config_ok, raster_id, annotations) ==
    /\ pc = "idle"
    /\ LET r == create_db(db, config_ok, raster_id, annotations)
       IN  /\ db' = r.db
           /\ result' = IF r.ok THEN "ok" ELSE r.error
    /\ op' = "create_db"
    /\ before' = db
    /\ returned' = NoReturn
    /\ batch' = <<>>
    /\ args' = [NoArgs EXCEPT !.config_ok = config_ok, !.raster_id = raster_id,
                              !.annotations = annotations]
    /\ UNCHANGED <<pc, schema_version, commit_no, start_version, steps_run, written,
                   loader>>

(***************************************************************************)
(* Specifications.                                                         *)
(***************************************************************************)
Start(d) ==
    /\ db = d
    /\ pc = "idle"
    /\ op = "none"
    /\ schema_version = 0
    /\ commit_no = 0
    /\ start_version = 0
    /\ steps_run = <<>>
    /\ before = d
    /\ result = "none"
    /\ returned = NoReturn
    /\ batch = <<>>
    /\ written = <<>>
    /\ args = NoArgs
    /\ loader = NoLoader

\* Spec: a file made by create_db, then add_pulses, load_pulses and load_metadata
StoreOps == {"load_metadata", "load_pulses", "add_pulses"}

StoreBatches(d) ==
    {<<m>> : m \in Measurements(StoredUuids(d), Shapes)}
    \cup Batches(d, {"plain", "stitched2"}, {"plain"})

Init == Start(NewFile)

Next ==
    \/ \E o \in StoreOps : Call(o)
    \/ Loop
    \/ LoadMetadata
    \/ LoadPulses
    \/ AddPulses(StoreBatches(db))

Spec == Init /\ [][Next]_vars

(***************************************************************************)
(* SpecMig: files of every schema version, opened by every operation.      *)
(***************************************************************************)
LegacyFiles ==
    {FileAt(v, flags, stitched) :
        v \in 1..(CURRENT_SCHEMA_VERSION - 1), flags \in LegacyFlags, stitched \in BOOLEAN}

\* one plain measurement under the next unused uuid, while the file holds fewer than two
PlainBatches(d) ==
    {<<PlainMeasurement(PlainTrace(Min(Len(d.pulses) + 1, 2)), variant)>> :
        variant \in FinalVariants}

AnnotationLists == {<<>>, <<"k">>}

\* the (non-empty) uuid sets and the reference uuids update_references is called with
IdSets == {{1}, {2}, {1, 2}}
ReferenceUuids == {None, 1, 2}

\* the plain batches and, into an empty file, one stitched or averaged measurement
MigBatches(d) ==
    PlainBatches(d)
    \cup (IF d.pulses # <<>> THEN {}
          ELSE {<<PlainMeasurement(ShapedTrace(sh, <<1, 2, 3>>, <<0, 1>>), "sample")>> :
                   sh \in {"stitched2", "averaged"}})

InitMig == \E d \in LegacyFiles \cup {NewFile} : Start(d)

NextMig ==
    \/ \E o \in Ops : Call(o)
    \/ Loop
    \/ MigrationStep
    \/ LoadMetadata
    \/ LoadPulses
    \/ AddPulses(MigBatches(db))
    \/ \E annotations \in AnnotationLists : UpdateAnnotations(annotations)
    \/ \E measurement_ids \in IdSets, reference_uuid \in ReferenceUuids :
           UpdateReferences(measurement_ids, reference_uuid)

SpecMig == InitMig /\ [][NextMig]_vars

(***************************************************************************)
(* SpecCrash: as SpecMig, but the path may hold no file, create_db may be  *)
(* called on it at any time, and the process may die inside a call.        *)
(***************************************************************************)
MaxCreates == 2       \* create_db is called while raster_info holds fewer rows

RasterIds == {None, 100}

InitCrash == \E d \in LegacyFiles \cup {NoFile} : Start(d)

NextCrash ==
    \/ \E o \in Ops : Call(o)
    \/ Loop
    \/ MigrationStep
    \/ Crash
    \/ LoadMetadata
    \/ LoadPulses
    \/ AddPulses(PlainBatches(db))
    \/ \E annotations \in AnnotationLists : UpdateAnnotations(annotations)
    \/ \E measurement_ids \in IdSets, reference_uuid \in ReferenceUuids :
           UpdateReferences(measurement_ids, reference_uuid)
    \/ UpdateReferencesNothing
    \/ /\ Len(db.raster_info) < MaxCreates
       /\ \E config_ok \in BOOLEAN, raster_id \in RasterIds :
              CreateDb(config_ok, raster_id, <<>>)

SpecCrash == InitCrash /\ [][NextCrash]_vars

(***************************************************************************)
(* SpecFields: a new file, one measurement without lineage written with    *)
(* every combination of its optional fields, then read back.               *)
(***************************************************************************)
AxisValues == {None, 1}

Points == {NoPoint} \cup {Point3D(x, y, z) : x \in AxisValues, y \in AxisValues,
                                             z \in AxisValues}

OptionalAnnotations == {NoList, SomeList(<<>>), SomeList(<<"k">>)}

\* waveforms: empty, float32 values only, and values that float32 rounds
Waveforms == {<<>>, <<0, 2>>, <<1, 3, 6>>}

FieldMeasurements ==
    {Measurement(Trace(BaseTrace(1, w, w, 1001, None), NoList, NoList),
                 point, variant, reference, annotations, pass_number) :
        w \in Waveforms, point \in Points, variant \in {"sample", "noise"},
        reference \in {None, 2}, annotations \in OptionalAnnotations,
        pass_number \in {None, 1}}

\* the field variations go into the empty file; afterwards one plain pulse more
FieldBatches(d) ==
    IF d.pulses = <<>> THEN {<<m>> : m \in FieldMeasurements}
    ELSE {<<PlainMeasurement(PlainTrace(2), "sample")>>}

NextFields ==
    \/ \E o \in {"add_pulses", "load_pulses"} : Call(o)
    \/ Loop
    \/ LoadPulses
    \/ AddPulses(FieldBatches(db))

SpecFields == Init /\ [][NextFields]_vars

(***************************************************************************)
(* SpecLineage: a new file; the caller builds Traces with every lineage    *)
(* shape, valid or not.  A Trace whose constructor raises never exists, so *)
(* the call of add_pulses it was built for is not made.                    *)
(***************************************************************************)
LineageShapes ==
    {"plain", "derived0", "derived1", "derived2", "derived3",
     "averaged0", "averaged1", "averaged2", "averaged_stitched", "averaged_stitched1",
     "nested", "both", "both_empty_derived", "both_empty_averaged", "both_single"}

\* the number of pulses (the final and all its sources) of a lineage shape
LineageSlots(shape) ==
    CASE shape \in {"plain", "derived0", "averaged0"} -> 1
      [] shape \in {"derived1", "averaged1"} -> 2
      [] shape \in {"derived2", "averaged2", "both_empty_derived", "both_empty_averaged",
                    "both_single"} -> 3
      [] shape \in {"derived3", "averaged_stitched1"} -> 4
      [] OTHER -> 5

\* a derived_from list over the uuids v[from] .. v[from + k - 1], positions ascending
Compositions(v, from, k) ==
    StitchList([i \in 1..k |-> v[from + i - 1]], Ascending(k))

\* the Trace of a lineage shape over the uuids v
LineageTrace(shape, v) ==
    CASE shape = "plain" -> PlainTrace(v[1])
      [] shape = "derived0" -> Trace(PlainBase(v[1]), SomeList(<<>>), NoList)
      [] shape = "derived1" -> Trace(PlainBase(v[1]), SomeList(Compositions(v, 2, 1)), NoList)
      [] shape = "derived2" -> Trace(PlainBase(v[1]), SomeList(Compositions(v, 2, 2)), NoList)
      [] shape = "derived3" -> Trace(PlainBase(v[1]), SomeList(Compositions(v, 2, 3)), NoList)
      [] shape = "averaged0" -> Trace(PlainBase(v[1]), NoList, SomeList(<<>>))
      [] shape = "averaged1" -> Trace(PlainBase(v[1]), NoList, SomeList(<<PlainTrace(v[2])>>))
      [] shape = "averaged2" ->
            Trace(PlainBase(v[1]), NoList, SomeList(<<PlainTrace(v[2]), PlainTrace(v[3])>>))
      [] shape = "averaged_stitched" ->
            Trace(PlainBase(v[1]), NoList,
                  SomeList(<<Trace(PlainBase(v[2]), SomeList(Compositions(v, 3, 2)), NoList),
                             PlainTrace(v[5])>>))
      [] shape = "averaged_stitched1" ->
            Trace(PlainBase(v[1]), NoList,
                  SomeList(<<Trace(PlainBase(v[2]), SomeList(Compositions(v, 3, 1)), NoList),
                             PlainTrace(v[4])>>))
      [] shape = "nested" ->
            Trace(PlainBase(v[1]), NoList,
                  SomeList(<<Trace(PlainBase(v[2]), NoList,
                                   SomeList(<<PlainTrace(v[3]), PlainTrace(v[4])>>)),
                             PlainTrace(v[5])>>))
      [] shape = "both" ->
            Trace(PlainBase(v[1]), SomeList(Compositions(v, 2, 2)),
                  SomeList(<<PlainTrace(v[4]), PlainTrace(v[5])>>))
      [] shape = "both_empty_derived" ->
            Trace(PlainBase(v[1]), SomeList(<<>>),
                  SomeList(<<PlainTrace(v[2]), PlainTrace(v[3])>>))
      [] shape = "both_empty_averaged" ->
            Trace(PlainBase(v[1]), SomeList(Compositions(v, 2, 2)), SomeList(<<>>))
      [] OTHER ->
            Trace(PlainBase(v[1]), SomeList(Compositions(v, 2, 1)),
                  SomeList(<<PlainTrace(v[3])>>))

\* the uuids a caller gives the n pulses of a Trace: unused ones while there are
\* enough, else the first n
LineageUuids(d, n) ==
    IF Cardinality(UUIDs \ StoredUuids(d)) >= n THEN Lowest(n, UUIDs \ StoredUuids(d))
    ELSE Lowest(n, UUIDs)

LineageBatches(d) ==
    {<<PlainMeasurement(LineageTrace(sh, LineageUuids(d, LineageSlots(sh))), variant)>> :
        sh \in LineageShapes, variant \in FinalVariants}

\* Trace(...) raises in validate_lineage: the caller is left without the Trace
TraceRejected(batches) ==
    /\ pc = "idle"
    /\ \E pulses \in batches :
           /\ \E i \in 1..Len(pulses) : ~ValidTrace(pulses[i].pulse)
           /\ batch' = pulses
    /\ op' = "Trace"
    /\ before' = db
    /\ result' = "ValidationError"
    /\ returned' = NoReturn
    /\ args' = NoArgs
    /\ UNCHANGED <<db, pc, schema_version, commit_no, start_version, steps_run, written,
                   loader>>

NextLineage ==
    \/ Call("add_pulses")
    \/ Loop
    \/ AddPulses(LineageBatches(db))
    \/ TraceRejected(LineageBatches(db))

SpecLineage == Init /\ [][NextLineage]_vars

(***************************************************************************)
(* SpecMeta: a path without a file, or the file with tables and a version  *)
(* row but no session metadata; create_db and every other operation.       *)
(***************************************************************************)
\* create_tables, then a SchemaVersion row, and no row in raster_info
EmptyDb == [create_tables(NoFile) EXCEPT !.schema_version = <<CURRENT_SCHEMA_VERSION>>]

\* lists of annotations; a pair is written as its key
MetaAnnotations == {<<>>, <<"k">>, <<"k", "j">>, <<"j", "k">>}

InitMeta == \E d \in {NoFile, EmptyDb} : Start(d)

NextMeta ==
    \/ \E o \in Ops : Call(o)
    \/ Loop
    \/ MigrationStep
    \/ LoadMetadata
    \/ LoadPulses
    \/ AddPulses(PlainBatches(db))
    \/ \E annotations \in MetaAnnotations : UpdateAnnotations(annotations)
    \/ \E measurement_ids \in IdSets, reference_uuid \in ReferenceUuids :
           UpdateReferences(measurement_ids, reference_uuid)
    \/ UpdateReferencesNothing
    \/ /\ Len(db.raster_info) < MaxCreates
       /\ \E config_ok \in BOOLEAN, raster_id \in RasterIds,
             annotations \in AnnotationLists :
              CreateDb(config_ok, raster_id, annotations)

SpecMeta == InitMeta /\ [][NextMeta]_vars

(***************************************************************************)
(* SpecCodec: a current file whose one pulse row holds time and signal     *)
(* blobs of every length up to MaxBlob, written past pack_floats; the      *)
(* caller adds measurements with every pair of waveforms and reads.        *)
(***************************************************************************)
MaxBlob == 9

\* blobs of 0..MaxBlob bytes, all zero or with one byte set
RawBlobs == {[i \in 1..n |-> IF i = k THEN 3 ELSE 0] : n \in 0..MaxBlob, k \in 0..MaxBlob}

\* the row of uuid 1 with the blobs time and signal in place of packed waveforms
CodecFiles ==
    {[NewFile EXCEPT !.pulses =
         <<[from_measurement(PlainMeasurement(PlainTrace(1), "sample"))
               EXCEPT !.time = time, !.signal = signal]>>] :
        time \in RawBlobs, signal \in {<<>>, <<0, 0, 4, 0>>, <<7, 0, 0>>}}

\* one measurement under the next free uuid, with every pair of waveforms
CodecBatches(d) ==
    IF Len(d.pulses) >= 2 THEN {}
    ELSE {<<PlainMeasurement(Trace(BaseTrace(Len(d.pulses) + 1, time, signal, 1002, None),
                                   NoList, NoList), "sample")>> :
            time \in Waveforms, signal \in Waveforms}

InitCodec == \E d \in CodecFiles : Start(d)

NextCodec ==
    \/ \E o \in {"add_pulses", "load_pulses"} : Call(o)
    \/ Loop
    \/ LoadPulses
    \/ AddPulses(CodecBatches(db))

SpecCodec == InitCodec /\ [][NextCodec]_vars

(***************************************************************************)
(* SpecCorrupt: current files whose tables were written past the public    *)
(* operations: any pulse rows over the uuids 1..MaxCorrupt and up to       *)
(* MaxEdges edges among these uuids that the constraints of the edge table *)
(* admit (SQLite does not enforce the foreign keys).  load_pulses runs     *)
(* pass by pass.                                                           *)
(***************************************************************************)
MaxCorrupt == 3
MaxEdges == 3

\* an edge written as a number code of its final, source and type, stored under the
\* id; a stitch edge's position follows its source
CorruptEdge(id, code) ==
    LET final == (code \div (2 * MaxCorrupt)) + 1
        source == ((code \div 2) % MaxCorrupt) + 1
    IN  IF code % 2 = 0 THEN EdgeRow(id, final, source, source - 1, 1, "stitch")
        ELSE EdgeRow(id, final, source, None, None, "average")

\* the edge tables: up to MaxEdges different edges that satisfy the table's constraints
CorruptEdgeTables ==
    {t \in {[i \in 1..Len(q) |-> CorruptEdge(i, q[i])] :
               q \in {q \in UNION {[1..n -> 0..(2 * MaxCorrupt * MaxCorrupt - 1)] :
                                    n \in 0..MaxEdges} :
                         \A i, j \in 1..Len(q) : i < j => q[i] < q[j]}} :
        EdgeConstraintsOk(t)}

\* the pulse tables: plain rows for any non-empty set of the uuids
CorruptPulseTables ==
    {[i \in 1..Len(KeysInOrder(us)) |->
         from_measurement(PlainMeasurement(PlainTrace(KeysInOrder(us)[i]), "sample"))] :
        us \in SUBSET (1..MaxCorrupt) \ {{}}}

CorruptFiles ==
    {[NewFile EXCEPT !.pulses = pulses, !.pulse_composition = edges] :
        pulses \in CorruptPulseTables, edges \in CorruptEdgeTables}

CorruptPages == {[offset |-> 0, limit |-> MaxRows, variant |-> NoVariant]}

InitCorrupt == \E d \in CorruptFiles : Start(d)

NextCorrupt ==
    \/ Call("load_pulses")
    \/ Loop
    \/ LoadPulsesBegin(CorruptPages)
    \/ LoadPulsesPass
    \/ LoadPulsesEnd

SpecCorrupt == InitCorrupt /\ [][NextCorrupt]_vars

\* a call that runs keeps running: each pass of the loop and the return are taken
SpecCorruptLive ==
    SpecCorrupt /\ WF_vars(LoadPulsesBegin(CorruptPages)) /\ WF_vars(LoadPulsesPass)
                /\ WF_vars(LoadPulsesEnd) /\ WF_vars(Loop)

(***************************************************************************)
(* Properties of the migrator (C1 - C4).                                   *)
(***************************************************************************)
\* the version _ensure_schema_compatibility works with: a missing row counts as 1
StoredVersion(d) ==
    IF _get_schema_version(d) = None THEN 1 ELSE _get_schema_version(d)

\* a call of an operation that opens the file has left the migrator
LeftMigrator == op \in Ops /\ pc \in {"opened", "idle"}

\* C1: a call that opens a file stored at a version v below CURRENT_SCHEMA_VERSION
\* leaves the migrator only after it ran the steps registered for v, v+1, ...,
\* CURRENT-1 in that order, with the stored version equal to CURRENT_SCHEMA_VERSION;
\* a step is registered for every version 1..CURRENT-1.
C1_MigratesToCurrent ==
    (LeftMigrator /\ start_version < CURRENT_SCHEMA_VERSION) =>
        /\ start_version..(CURRENT_SCHEMA_VERSION - 1) \subseteq DOMAIN MIGRATION_SCRIPTS
        /\ result # "KeyError"
        /\ _get_schema_version(db) = CURRENT_SCHEMA_VERSION
        /\ steps_run = [i \in 1..(CURRENT_SCHEMA_VERSION - start_version) |->
                           start_version + i - 1]

\* C2: opening a file that is at CURRENT_SCHEMA_VERSION runs no step and leaves the
\* file as it was, and every call of a reading operation on a file, legacy or
\* opened before, succeeds and leaves a file that was current unchanged.
C2_OpenIsIdempotent ==
    /\ (LeftMigrator /\ start_version = CURRENT_SCHEMA_VERSION) =>
           /\ steps_run = <<>>
           /\ pc = "opened" => db = before
    /\ (pc = "idle" /\ op \in {"load_metadata", "load_pulses"}) =>
           /\ result = "ok"
           /\ start_version = CURRENT_SCHEMA_VERSION => db = before

\* the file is exactly in the state of its stored version: the columns of that
\* version, no table left over from a rebuild, rows and edges in that version's shape
ExactlyAtStoredVersion(d) ==
    LET v == StoredVersion(d)
    IN  /\ d.columns = ColumnsAt(v)
        /\ "pulse_composition" \in d.tables
        /\ "pulse_composition_old" \notin d.tables
        /\ d.pulse_composition_old = <<>>
        /\ \A i \in 1..Len(d.pulses) :
               /\ (d.pulses[i].variant = NoVariant) = (v <= 2)
               /\ v >= 3 => d.pulses[i].is_reference = None
        /\ \A i \in 1..Len(d.pulse_composition) :
               (d.pulse_composition[i].composition_type = NoVariant) = (v <= 4)

\* C3: when a call on a file that was exactly in the state of its stored version
\* ends, by returning, by an error or by a crash inside a migration step, the file
\* is again exactly in the state of its stored version, never partially migrated.
C3_StepsAreAtomic ==
    (pc = "idle" /\ op \in Ops /\ before.exists /\ ExactlyAtStoredVersion(before)) =>
        ExactlyAtStoredVersion(db)

VersionInRange ==
    \A i \in 1..Len(db.schema_version) :
        db.schema_version[i] \in 1..CURRENT_SCHEMA_VERSION

\* one step of the file: no version row is removed or lowered, the stored version
\* of an existing file does not decrease, and a successful create_db writes CURRENT
VersionStep ==
    /\ Len(db'.schema_version) >= Len(db.schema_version)
    /\ \A i \in 1..Len(db.schema_version) : db'.schema_version[i] >= db.schema_version[i]
    /\ db.exists => StoredVersion(db') >= StoredVersion(db)
    /\ (op' = "create_db" /\ result' = "ok") =>
           db'.schema_version[Len(db'.schema_version)] = CURRENT_SCHEMA_VERSION

\* C4: the stored schema version never decreases: every change of a version row
\* replaces a value by a strictly greater one, every stored value lies in
\* 1..CURRENT_SCHEMA_VERSION, and create_db writes CURRENT_SCHEMA_VERSION.
C4_VersionNeverDecreases == [](VersionInRange) /\ [][VersionStep]_vars

\* a version-1 file that one call migrated through four steps
C4_Witness ==
    /\ pc = "idle" /\ start_version = 1
    /\ steps_run = <<1, 2, 3, 4>>
    /\ db.schema_version = <<5>>

(***************************************************************************)
(* Properties of the round trip add_pulses -> load_pulses (C5 - C7).       *)
(***************************************************************************)
\* load_pulses has returned a list
Loaded == pc = "idle" /\ op = "load_pulses" /\ result = "ok"

\* the written Measurement and the returned one of each uuid that was both
Pairs ==
    {<<written[j], returned.list[i]>> :
        i \in {x \in 1..Len(returned.list) :
                  \E j \in 1..Len(written) :
                      written[j].pulse.uuid = returned.list[x].pulse.uuid},
        j \in 1..Len(written)}

SameUuid(pair) == pair[1].pulse.uuid = pair[2].pulse.uuid

NoLineage(t) == ~Truthy(t.derived_from) /\ ~Truthy(t.averaged_from)

\* a list of doubles at float32 precision
AtFloat32(values) == [i \in 1..Len(values) |-> Float32Value(Float32Code(values[i]))]

AllAxesAbsent(point) == point.x = None /\ point.y = None /\ point.z = None

\* what both readings of C5 share: uuid, variant, reference, pass_number and the
\* waveforms, same length and order, at float32 precision; no lineage
SameCore(w, r) ==
    /\ r.pulse.uuid = w.pulse.uuid
    /\ r.variant = w.variant
    /\ r.reference = w.reference
    /\ r.pass_number = w.pass_number
    /\ r.pulse.time = AtFloat32(w.pulse.time)
    /\ r.pulse.signal = AtFloat32(w.pulse.signal)
    /\ r.pulse.timestamp = w.pulse.timestamp
    /\ r.pulse.noise = w.pulse.noise
    /\ r.pulse.derived_from = NoList /\ r.pulse.averaged_from = NoList

AscendingPositions(list) ==
    \A i, j \in 1..Len(list) : i < j => list[i].position < list[j].position

Entries(list) ==
    {<<list[i].pulse.uuid, list[i].position, list[i].shift>> : i \in 1..Len(list)}

\* the returned derived_from holds exactly the written entries, by ascending position
StitchRoundTrip(w, r) ==
    /\ r.some
    /\ Len(r.list) = Len(w.list)
    /\ Entries(r.list) = Entries(w.list)
    /\ AscendingPositions(r.list)

FinalUuids(d) == StoredUuids(d) \ SourceUuids(d)

ReturnedUuids == [i \in 1..Len(returned.list) |-> returned.list[i].pulse.uuid]

NoRepeats(seq) == \A i, j \in 1..Len(seq) : seq[i] = seq[j] => i = j

StandAlone(d) ==
    {u \in FinalUuids(d) :
        \A i \in 1..Len(d.pulse_composition) : d.pulse_composition[i].final_uuid # u}

MatchingFinals(d, variant) ==
    {d.pulses[i].uuid : i \in {x \in 1..Len(d.pulses) :
        /\ d.pulses[x].uuid \in FinalUuids(d)
        /\ (variant = NoVariant \/ d.pulses[x].variant = variant)}}

Rejected ==
    /\ op = "Trace" /\ result = "ValidationError"
    /\ db.pulses = before.pulses
    /\ db.pulse_composition = before.pulse_composition

BothSet(t) == t.derived_from.some /\ t.averaged_from.some

\* C11: a Trace with both derived_from and averaged_from set is rejected when it is
\* built, with the pulse and edge tables unchanged; no call of add_pulses carries
\* one, and no stored pulse is the final of both a stitch and an average edge.
C11_BothLineagesRejected ==
    /\ \A i \in 1..Len(batch) : BothSet(batch[i].pulse) => Rejected
    /\ \A i, j \in 1..Len(db.pulse_composition) :
           db.pulse_composition[i].final_uuid = db.pulse_composition[j].final_uuid =>
               db.pulse_composition[i].composition_type
                   = db.pulse_composition[j].composition_type

\* a Trace with two stitch entries and two averaged sources was rejected while the
\* file held pulses
C11_Witness ==
    /\ Rejected /\ Len(batch) = 1
    /\ Len(batch[1].pulse.derived_from.list) = 2
    /\ Len(batch[1].pulse.averaged_from.list) = 2
    /\ db.pulses # <<>>

SingleEntry(t) ==
    \/ t.derived_from.some /\ Len(t.derived_from.list) = 1
    \/ t.averaged_from.some /\ Len(t.averaged_from.list) = 1

\* a Trace with one lineage list of 2 or more entries that breaks no other rule:
\* its averaged sources are not averaged and are stitched from 2 or more, if at all
OneGoodLineage(t) ==
    /\ t.derived_from.some # t.averaged_from.some
    /\ t.derived_from.some => Len(t.derived_from.list) >= 2
    /\ t.averaged_from.some => Len(t.averaged_from.list) >= 2
    /\ \A i \in 1..Len(t.averaged_from.list) :
           LET s == t.averaged_from.list[i]
           IN  /\ ~s.averaged_from.some
               /\ s.derived_from.some => Len(s.derived_from.list) >= 2

RECURSIVE StitchEntriesOf(_)
\* the stitch entries of the traces of a list, concatenated
StitchEntriesOf(sources) ==
    IF sources = <<>> THEN <<>>
    ELSE Head(sources).derived_from.list \o StitchEntriesOf(Tail(sources))

\* the uuids of t are pairwise distinct and none of them is stored in d
AllNew(t, d) ==
    /\ TraceUuids(t) \cap StoredUuids(d) = {}
    /\ Cardinality(TraceUuids(t)) =
           1 + Len(t.derived_from.list) + Len(t.averaged_from.list)
           + Len(StitchEntriesOf(t.averaged_from.list))

NestedAveraging(t) ==
    \E i \in 1..Len(t.averaged_from.list) : t.averaged_from.list[i].averaged_from.some

\* a Trace averaged from 2 or more sources, one of them stitched, none averaged
AveragedFromStitched(t) ==
    /\ ~t.derived_from.some
    /\ Len(t.averaged_from.list) >= 2
    /\ \E i \in 1..Len(t.averaged_from.list) :
           Len(t.averaged_from.list[i].derived_from.list) >= 2
    /\ \A i \in 1..Len(t.averaged_from.list) :
           LET s == t.averaged_from.list[i]
           IN  ~s.averaged_from.some /\ Len(s.derived_from.list) # 1

\* C13: a Trace with an averaged source that has averaged_from set is rejected with
\* nothing written; a Trace whose averaged sources carry derived_from is not
\* rejected; so no batch of add_pulses holds two levels of averaging, and no
\* source of an average edge is the final of an average edge.
C13_NoNestedAveraging ==
    /\ \A i \in 1..Len(batch) :
           /\ NestedAveraging(batch[i].pulse) => Rejected
           /\ AveragedFromStitched(batch[i].pulse) => op = "add_pulses"
    /\ \A i, j \in 1..Len(db.pulse_composition) :
           ~(/\ db.pulse_composition[i].composition_type = "average"
             /\ db.pulse_composition[j].composition_type = "average"
             /\ db.pulse_composition[i].source_uuid = db.pulse_composition[j].final_uuid)

\* a nested average was rejected while the file held an average over a stitched source
C13_Witness ==
    /\ Rejected /\ Len(batch) = 1
    /\ NestedAveraging(batch[1].pulse)
    /\ \E i, j \in 1..Len(db.pulse_composition) :
           /\ db.pulse_composition[i].composition_type = "average"
           /\ db.pulse_composition[j].composition_type = "stitch"
           /\ db.pulse_composition[i].source_uuid = db.pulse_composition[j].final_uuid

(***************************************************************************)
(* Properties of the write path (C14, C15).                                *)
(***************************************************************************)
\* a call of add_pulses that reached the body has ended
Added == pc = "idle" /\ op = "add_pulses" /\ result \in {"ok", "IntegrityError"}

\* every uuid named in the batch: the finals, their sources, the sources of those
BatchUuids(pulses) == UNION {TraceUuids(pulses[i].pulse) : i \in 1..Len(pulses)}

\* the edge e is stored in d (under whatever id)
EdgeStored(e, d) ==
    \E k \in 1..Len(d.pulse_composition) : [d.pulse_composition[k] EXCEPT !.id = None] = e

\* C14: a failed add_pulses leaves the pulse and edge tables as they were, and it
\* fails whenever a uuid of the batch is stored already; a successful one keeps
\* the old rows and holds the row of every final, of every source and every edge
\* of the batch.
C14_BatchIsAtomic ==
    Added =>
        /\ BatchUuids(batch) \cap StoredUuids(before) # {} => result = "IntegrityError"
        /\ result = "IntegrityError" =>
               /\ db.pulses = before.pulses
               /\ db.pulse_composition = before.pulse_composition
        /\ result = "ok" =>
               /\ SubSeq(db.pulses, 1, Len(before.pulses)) = before.pulses
               /\ SubSeq(db.pulse_composition, 1, Len(before.pulse_composition))
                      = before.pulse_composition
               /\ \A i \in 1..Len(batch) : from_measurement(batch[i]) \in Range(db.pulses)
               /\ BatchUuids(batch) \subseteq StoredUuids(db)
               /\ Len(db.pulses) = Len(before.pulses) + Cardinality(BatchUuids(batch))
               /\ \A e \in Range(EdgesOf(batch)) : EdgeStored(e, db)
               /\ Len(db.pulse_composition)
                      = Len(before.pulse_composition) + Len(EdgesOf(batch))

\* a batch of two failed on its second pulse, the first being new, on a file with pulses
C14_Witness ==
    /\ Added /\ result = "IntegrityError" /\ Len(batch) = 2
    /\ TraceUuids(batch[1].pulse) \cap StoredUuids(before) = {}
    /\ Truthy(batch[1].pulse.derived_from)
    /\ before.pulses # <<>>

\* two edges of one final with the same position, or with the same source
SameEdgeKey(e, f) ==
    /\ e.final_uuid = f.final_uuid
    /\ \/ e.position # None /\ e.position = f.position
       \/ e.source_uuid = f.source_uuid

HasDuplicateEdgeKey(rows) ==
    \E i, j \in 1..Len(rows) : i # j /\ SameEdgeKey(rows[i], rows[j])

OneRowEach(d) == Len(d.raster_info) = 1 /\ Len(d.schema_version) = 1

\* C16: a step that creates the file leaves it with exactly one session-metadata
\* row and one schema-version row, and no step of a public operation takes a file
\* that has exactly one row of each kind to one that has not.
C16_SingleRows ==
    [][/\ (~db.exists /\ db'.exists) => OneRowEach(db')
       /\ (db.exists /\ OneRowEach(db)) => OneRowEach(db')]_vars

\* C17: create_db with a variant and a raster_config that do not go together fails
\* with a validation error and leaves the path as it was (no file, table or row
\* more than before), and a valid create_db on the path then makes a file that
\* load_metadata reads.
C17_ValidatesBeforeMutation ==
    (pc = "idle" /\ op = "create_db" /\ ~args.config_ok) =>
        /\ result = "ValueError"
        /\ db = before
        /\ LET r == create_db(db, TRUE, None, <<>>)
           IN  /\ r.ok
               /\ StoredVersion(r.db) = CURRENT_SCHEMA_VERSION
               /\ load_metadata(r.db).error = "none"

\* C18 as stated: every operation but create_db, whatever its arguments, fails with
\* FileNotFoundError on a path without a file and creates no file.
C18_NotFoundForEveryCall ==
    (pc = "idle" /\ op \in Ops /\ ~before.exists) =>
        /\ result = "FileNotFoundError"
        /\ ~db.exists

\* C18: on a path without a file, update_references without measurement_ids
\* returns without error, every other call of an operation but create_db fails
\* with FileNotFoundError, and none of them creates a file.
C18_NotFoundUnlessNoIds ==
    (pc = "idle" /\ op \in Ops /\ ~before.exists) =>
        /\ result = IF op = "update_references" /\ args.no_ids THEN "ok"
                    ELSE "FileNotFoundError"
        /\ ~db.exists

\* update_references with measurement_ids was refused on a path without a file
C18_Witness ==
    /\ pc = "idle" /\ op = "update_references" /\ ~args.no_ids
    /\ result = "FileNotFoundError"
    /\ ~before.exists /\ ~db.exists

\* C19: load_metadata and update_annotations on a file that has its tables but no
\* session-metadata row fail with ValueError ('No metadata found in DB') and leave
\* the file as it was.
C19_NoMetadataError ==
    (/\ pc = "idle" /\ op \in {"load_metadata", "update_annotations"}
     /\ before.exists /\ ModelTables \subseteq before.tables
     /\ before.raster_info = <<>>) =>
        /\ result = "ValueError"
        /\ db = before

ReferencesUpdated ==
    pc = "idle" /\ op = "update_references" /\ ~args.no_ids /\ result \in {"ok", "ValueError"}

RowOf(d, u) == CHOOSE r \in Range(d.pulses) : r.uuid = u

\* the list xs as it comes back from unpack(pack(.)), value by value
RoundTripped(xs) == [i \in 1..Len(xs) |-> unpack_floats(pack_floats(<<xs[i]>>))[1]]

\* the final rows the last load_pulses selected
SelectedRows ==
    _get_final_pulse_rows(before, returned.offset, returned.limit, returned.variant)

LoadReturned == op = "load_pulses" /\ pc = "idle" /\ result \in {"ok", "struct.error"}

\* C24: pack_floats of n values writes 4n bytes; unpack_floats of 4n bytes returns n
\* values; a waveform written and read back has its length and its order; a load
\* that meets a blob whose length is no multiple of 4 fails with struct.error and
\* returns nothing, never a truncated waveform.
C24_CodecLengths ==
    /\ \A i \in 1..Len(written) :
           LET m == written[i]
               row == RowOf(db, m.pulse.uuid)
           IN  /\ Len(row.time) = 4 * Len(m.pulse.time)
               /\ Len(row.signal) = 4 * Len(m.pulse.signal)
               /\ unpack_floats(row.time) = RoundTripped(m.pulse.time)
               /\ unpack_floats(row.signal) = RoundTripped(m.pulse.signal)
    /\ LoadReturned =>
           /\ (\E i \in 1..Len(SelectedRows) : BadBlob(SelectedRows[i])) <=>
                  result = "struct.error"
           /\ result = "struct.error" => returned.list = <<>>
           /\ result = "ok" =>
                  /\ Len(returned.list) = Len(SelectedRows)
                  /\ \A i \in 1..Len(returned.list) :
                         /\ 4 * Len(returned.list[i].pulse.time) = Len(SelectedRows[i].time)
                         /\ 4 * Len(returned.list[i].pulse.signal) =
                                Len(SelectedRows[i].signal)
                  /\ \A i \in 1..Len(returned.list), j \in 1..Len(written) :
                         returned.list[i].pulse.uuid = written[j].pulse.uuid =>
                             returned.list[i].pulse.time = RoundTripped(written[j].pulse.time)

\* a load returned a written waveform of three values that float32 rounds, next to a
\* raw blob of 8 bytes read as two values
C24_Witness ==
    /\ LoadReturned /\ result = "ok"
    /\ \E i, j \in 1..Len(returned.list) :
           /\ Len(returned.list[i].pulse.time) = 3
           /\ returned.list[i].pulse.time # written[1].pulse.time
           /\ returned.list[i].pulse.uuid = written[1].pulse.uuid
           /\ Len(RowOf(before, returned.list[j].pulse.uuid).time) = 8
           /\ Len(returned.list[j].pulse.time) = 2

\* a load failed on a blob of 7 bytes
C24_WitnessBadBlob ==
    /\ LoadReturned /\ result = "struct.error"
    /\ \E i \in 1..Len(SelectedRows) : Len(SelectedRows[i].time) = 7

(***************************************************************************)
(* Properties of the read path on corrupt tables (C23, C28).               *)
(***************************************************************************)
\* the final row u of the page owns an average edge whose source has a pulse row
\* and is itself the final of an average edge
OwnsNestedAverage(d, u) ==
    \E i, j \in 1..Len(d.pulse_composition) :
        LET e == d.pulse_composition[i]
            n == d.pulse_composition[j]
        IN  /\ e.final_uuid = u /\ e.composition_type = "average"
            /\ e.source_uuid \in StoredUuids(d)
            /\ n.final_uuid = e.source_uuid /\ n.composition_type = "average"

LoadEnded == op = "load_pulses" /\ pc = "idle" /\ result # "none"

\* C23: a load_pulses whose page holds a final that owns an average edge to a source
\* with an average edge of its own fails: it raises an error for the corrupt record
\* and never returns a Measurement with the nested averaging dropped.
C23_NestedAverageReported ==
    (LoadEnded /\ \E i \in 1..Len(loader.rows) : OwnsNestedAverage(before, loader.rows[i].uuid))
        => result # "ok"

\* C28: every run of the loop of _load_all_sources ends, and no pass loads a pulse
\* row that an earlier pass has loaded.
C28_LoaderTerminates ==
    /\ [](~loader.reloaded)
    /\ (pc = "loading") ~> (pc = "idle")

(***************************************************************************)
(* Recovery of the migrator (C25).                                         *)
(***************************************************************************)
RECURSIVE RunMigrations(_, _, _)
\* the loop of _ensure_schema_compatibility run without interruption, from the commit
\* k of the step of the version v
RunMigrations(d, v, k) ==
    IF v >= CURRENT_SCHEMA_VERSION THEN Committed(d)
    ELSE IF v \notin DOMAIN MIGRATION_SCRIPTS THEN Raised(d, "KeyError")
    ELSE LET r == MigrationCommit(v, k, d)
         IN  IF ~r.ok THEN r
             ELSE IF k + 1 = NumCommits(MIGRATION_SCRIPTS[v])
             THEN RunMigrations(r.db, v + 1, 0)
             ELSE RunMigrations(r.db, v, k + 1)

\* _ensure_schema_compatibility on the file d
_ensure_schema_compatibility(d) == RunMigrations(d, StoredVersion(d), 0)

\* a migration step stops between two of its commits, by a crash or by an error
StepInterrupted == pc = "step" /\ commit_no >= 1 /\ pc' = "idle"

\* C25: when a migration step stops between two of its commits, the next open of
\* the file it leaves runs the migrator without an error up to
\* CURRENT_SCHEMA_VERSION and keeps the pulse rows, in their order.
C25_ReopenRecovers ==
    [][StepInterrupted =>
          LET r == _ensure_schema_compatibility(db')
          IN  /\ r.ok
              /\ _get_schema_version(r.db) = CURRENT_SCHEMA_VERSION
              /\ [i \in 1..Len(r.db.pulses) |-> r.db.pulses[i].uuid] =
                     [i \in 1..Len(db'.pulses) |-> db'.pulses[i].uuid]]_vars

(***************************************************************************)
(* Properties of the migration steps on data (C26, C27).                   *)
(***************************************************************************)
\* the variant that matches a legacy flag
VariantOfFlag(flag) == IF flag = 1 THEN "reference" ELSE "sample"

\* the commit of the v2-to-v3 step that alters and backfills the pulse table
BackfillCommit == pc = "step" /\ schema_version = 2 /\ commit_no = 0 /\ pc' = "step"

\* the step gave every pulse row the variant of its flag and kept the rows
StepBackfills ==
    BackfillCommit =>
        /\ Len(db'.pulses) = Len(db.pulses)
        /\ \A i \in 1..Len(db.pulses) :
               /\ db'.pulses[i].uuid = db.pulses[i].uuid
               /\ db.pulses[i].is_reference \in {0, 1} =>
                      db'.pulses[i].variant = VariantOfFlag(db.pulses[i].is_reference)

\* the pulse rows of the file d that are no source of an edge
FinalRows(d) ==
    SelectSeq(d.pulses, LAMBDA r : \A i \in 1..Len(d.pulse_composition) :
                                      d.pulse_composition[i].source_uuid # r.uuid)

\* a load_pulses of a whole page on a file found below version 3 returned every
\* final pulse the file held under the variant of its legacy flag
ChainLoads ==
    (op = "load_pulses" /\ pc = "idle" /\ result # "none" /\ StoredVersion(before) <= 2) =>
        /\ result = "ok"
        /\ (returned.offset = 0 /\ returned.limit = MaxRows) =>
               \A i \in 1..Len(FinalRows(before)) :
                   LET row == FinalRows(before)[i]
                   IN  returned.variant \in {NoVariant, VariantOfFlag(row.is_reference)} =>
                           \E j \in 1..Len(returned.list) :
                               /\ returned.list[j].pulse.uuid = row.uuid
                               /\ returned.list[j].variant = VariantOfFlag(row.is_reference)

\* C26: the v2-to-v3 step gives each pulse with is_reference = 1 the variant
\* 'reference' and each pulse with is_reference = 0 the variant 'sample', adding and
\* removing no pulse row; and a load_pulses that opens a file stored below version 3
\* runs the whole chain and returns every pre-existing pulse under the variant of its
\* legacy flag.
C26_VariantBackfilled == [][StepBackfills]_vars /\ [](ChainLoads)

\* the step part of C26 alone
C26_StepBackfills == [][StepBackfills]_vars

\* the shape rule of an edge row
ShapeOk(e) ==
    \/ e.composition_type = "stitch" /\ e.position # None /\ e.shift # None
    \/ e.composition_type = "average" /\ e.position = None /\ e.shift = None

\* every edge of a table that has the column composition_type satisfies the rule
EdgeShapes ==
    "pulse_composition.composition_type" \in db.columns =>
        \A i \in 1..Len(db.pulse_composition) : ShapeOk(db.pulse_composition[i])

\* the v4-to-v5 step ends: the edge table holds the edges the call found, each with
\* its id, final_uuid, source_uuid, position and shift, and the type 'stitch'
StepCarriesEdges ==
    (pc = "step" /\ schema_version = 4 /\ pc' = "loop") =>
        db'.pulse_composition =
            [i \in 1..Len(before.pulse_composition) |->
                [before.pulse_composition[i] EXCEPT !.composition_type = "stitch"]]

Edges == Range(db.pulse_composition)

\* the uuids one edge away from the uuids of the set us
Sources(us) == {e.source_uuid : e \in {x \in Edges : x.final_uuid \in us}}

RECURSIVE ReachedWithin(_, _)
\* the uuids reached from the set us along at least one and at most n + 1 edges
ReachedWithin(us, n) ==
    IF n = 0 THEN Sources(us)
    ELSE Sources(us) \cup ReachedWithin(Sources(us), n - 1)

Acyclic ==
    \A e \in Edges : e.final_uuid \notin ReachedWithin({e.final_uuid}, Cardinality(Edges))

\* C29: in every state the composition graph is acyclic and at most two edges deep:
\* no pulse is reachable from itself, no source of an 'average' edge is the final of
\* an 'average' edge, no source of a 'stitch' edge is the final of any edge, and no
\* pulse is the final of both 'stitch' and 'average' edges.
C29_GraphShape ==
    /\ Acyclic
    /\ \A e, f \in Edges :
           /\ (e.composition_type = "average" /\ f.composition_type = "average") =>
                  f.final_uuid # e.source_uuid
           /\ e.composition_type = "stitch" => f.final_uuid # e.source_uuid
           /\ f.final_uuid = e.final_uuid => f.composition_type = e.composition_type

\* edges are stored, and the last add_pulses failed on a batch with a trace whose
\* sources include the final of a stored edge
C29_Witness ==
    /\ pc = "idle" /\ op = "add_pulses" /\ result = "IntegrityError"
    /\ \E e \in Edges : \E i \in 1..Len(batch) :
           /\ e.final_uuid \in TraceUuids(batch[i].pulse)
           /\ e.final_uuid # batch[i].pulse.uuid

\* C30: on a file the public operations produced, every edge has a pulse row for its
\* final_uuid and for its source_uuid, every final with edges has at least 2 edges,
\* all of one type, and every load_pulses returns its Measurements without an error.
C30_LoadNeverFails ==
    /\ \A e \in Edges :
           /\ {e.final_uuid, e.source_uuid} \subseteq StoredUuids(db)
           /\ Cardinality({f \in Edges : f.final_uuid = e.final_uuid}) >= 2
           /\ \A f \in Edges :
                  f.final_uuid = e.final_uuid => f.composition_type = e.composition_type
    /\ (op = "load_pulses" /\ pc = "idle" /\ result # "none" /\ before.exists) =>
           result = "ok"

====
